---- MODULE Spec2Model ----
(***************************************************************************)
(* Finals-week shift assignment of the help-desk scheduler.                *)
(*                                                                         *)
(* Three assignment procedures are modelled:                               *)
(*   - autoAssignFinals over the fixed DAY_SLICES table (variant "slices") *)
(*     with its closing balanceHours pass;                                 *)
(*   - autoAssignFinals over blocks generated from businessHours (variant  *)
(*     "blocks");                                                          *)
(*   - the V3 greedy assignShifts followed by fillWithFloaters.            *)
(*                                                                         *)
(* Representation: a time string "HH:MM" is the pair <<HH, MM>>; a date is *)
(* its ISO string; a worker document is a record whose id stands for _id   *)
(* (and for the name, which is unique per document); an assignee           *)
(* {_id, name} is the worker's id.                                         *)
(***************************************************************************)
EXTENDS Integers, Sequences, FiniteSets, TLC

(***************************************************************************)
(* Bounds of the model.                                                    *)
(***************************************************************************)
MaxWorkers == 3

MaxBlocksV3 == 4

\* Size of the one large roster of the model: enough core workers to staff
\* every block of the week within TARGET_HOURS.
FullStaff == 14

(***************************************************************************)
(* CONFIG of autoAssignFinals.                                             *)
(***************************************************************************)
TARGET_HOURS == 15
MAX_HOURS == 20
WINDOW_MIN == 1
WINDOW_MAX == 2
REMOTE_MIN == 2
REMOTE_MAX == 4

DAY_SLICES ==
  << [date |-> "2025-05-12",
      slices |-> << <<(<<7, 30>>), (<<11, 30>>)>>, <<(<<11, 30>>), (<<15, 30>>)>>,
                    <<(<<15, 30>>), (<<19, 30>>)>> >>],
     [date |-> "2025-05-13",
      slices |-> << <<(<<7, 30>>), (<<11, 30>>)>>, <<(<<11, 30>>), (<<15, 30>>)>>,
                    <<(<<15, 30>>), (<<19, 30>>)>> >>],
     [date |-> "2025-05-14",
      slices |-> << <<(<<7, 30>>), (<<11, 30>>)>>, <<(<<11, 30>>), (<<15, 30>>)>>,
                    <<(<<15, 30>>), (<<19, 30>>)>> >>],
     [date |-> "2025-05-15",
      slices |-> << <<(<<7, 30>>), (<<11, 30>>)>>, <<(<<11, 30>>), (<<15, 30>>)>>,
                    <<(<<15, 30>>), (<<19, 30>>)>> >>],
     [date |-> "2025-05-16",
      slices |-> << <<(<<7, 30>>), (<<11, 30>>)>>, <<(<<11, 30>>), (<<15, 30>>)>> >>] >>

businessHours ==
  << [date |-> "2025-05-12", open |-> <<7, 30>>, close |-> <<20, 0>>],
     [date |-> "2025-05-13", open |-> <<7, 30>>, close |-> <<20, 0>>],
     [date |-> "2025-05-14", open |-> <<7, 30>>, close |-> <<20, 0>>],
     [date |-> "2025-05-15", open |-> <<7, 30>>, close |-> <<20, 0>>],
     [date |-> "2025-05-16", open |-> <<7, 30>>, close |-> <<17, 0>>] >>

(***************************************************************************)
(* Generic helpers.                                                        *)
(***************************************************************************)
Range(s) == {s[i] : i \in DOMAIN s}

Min2(a, b) == IF a <= b THEN a ELSE b

Max2(a, b) == IF a >= b THEN a ELSE b

\* Array.prototype.slice(0, n) for n >= 0.
Slice(s, n) == SubSeq(s, 1, Min2(Max2(n, 0), Len(s)))

\* Array.prototype.sort with a comparator that orders by a key: the sort is
\* stable, so elements the comparator calls equal keep their relative order.
\* cmp[i, j] is the comparator's result on s[i] and s[j].
StableSort(s, cmp) ==
  LET n == Len(s)
      Ahead(i, j) == cmp[i, j] < 0 \/ (cmp[i, j] = 0 /\ i < j)
      rank == [i \in 1..n |-> Cardinality({j \in 1..n : Ahead(j, i)})]
  IN  [p \in 1..n |-> s[CHOOSE i \in 1..n : rank[i] = p - 1]]

(***************************************************************************)
(* HELPERS of autoAssignFinals.                                            *)
(***************************************************************************)
toMinutes(hm) == hm[1] * 60 + hm[2]

toTime(mins) == <<mins \div 60, mins % 60>>

\* (toMinutes(end) - toMinutes(start)) / 60; every block of the model is a
\* whole number of hours long.
Duration(shift) == (toMinutes(shift.endTime) - toMinutes(shift.startTime)) \div 60

\* An exam without a date never conflicts; toDateString() of both dates is
\* compared, which for two ISO dates is equality of the dates.
isConflictStartsInside(shift, exam) ==
  IF exam.date = "" THEN FALSE
  ELSE IF shift.date # exam.date THEN FALSE
  ELSE LET s0 == toMinutes(shift.startTime)
           e0 == toMinutes(exam.startTime)
           e1 == toMinutes(exam.endTime)
       IN  s0 >= e0 /\ s0 < e1

isConflictInclusive(shift, exam) ==
  IF exam.date = "" THEN FALSE
  ELSE IF shift.date # exam.date THEN FALSE
  ELSE LET s0 == toMinutes(shift.startTime)
           s1 == toMinutes(shift.endTime)
           e0 == toMinutes(exam.startTime)
           e1 == toMinutes(exam.endTime)
       IN  s0 <= e1 /\ s1 >= e0

isConflict(shift, exam) ==
  IF exam.date = "" THEN FALSE
  ELSE IF shift.date # exam.date THEN FALSE
  ELSE LET s0 == toMinutes(shift.startTime)
           s1 == toMinutes(shift.endTime)
           e0 == toMinutes(exam.startTime)
           e1 == toMinutes(exam.endTime)
       IN  s0 < e1 /\ s1 > e0

HasExamConflict(u, finals, shift) ==
  \E f \in finals : f.userId = u.id /\ isConflict(shift, f)

findEligibleNoProjection(users, finals, shift, hoursWorked, dur, hourCap) ==
  SelectSeq(users, LAMBDA u :
    /\ u.isActive
    /\ ~(u.isCommuter /\ toMinutes(shift.startTime) < 9 * 60)
    /\ ~(hoursWorked[u.id] > hourCap)
    /\ ~HasExamConflict(u, finals, shift))

findEligibleCommuterAtNine(users, finals, shift, hoursWorked, dur, hourCap) ==
  SelectSeq(users, LAMBDA u :
    /\ u.isActive
    /\ ~(u.isCommuter /\ toMinutes(shift.startTime) <= 9 * 60)
    /\ ~(hoursWorked[u.id] + dur > hourCap)
    /\ ~HasExamConflict(u, finals, shift))

findEligible(users, finals, shift, hoursWorked, dur, hourCap) ==
  SelectSeq(users, LAMBDA u :
    /\ u.isActive
    /\ ~(u.isCommuter /\ toMinutes(shift.startTime) < 9 * 60)
    /\ ~(hoursWorked[u.id] + dur > hourCap)
    /\ ~HasExamConflict(u, finals, shift))

ComparePickHoursOnly(a, b, hoursWorked, lastAssigned) ==
  LET ha == hoursWorked[a.id]
      hb == hoursWorked[b.id]
  IN  IF ha < TARGET_HOURS /\ hb >= TARGET_HOURS THEN -1
      ELSE IF hb < TARGET_HOURS /\ ha >= TARGET_HOURS THEN 1
      ELSE ha - hb

\* The comparator of pickWorkers.
ComparePick(a, b, hoursWorked, lastAssigned) ==
  LET ha == hoursWorked[a.id]
      hb == hoursWorked[b.id]
  IN  IF ha < TARGET_HOURS /\ hb >= TARGET_HOURS THEN -1
      ELSE IF hb < TARGET_HOURS /\ ha >= TARGET_HOURS THEN 1
      ELSE IF ha # hb THEN ha - hb
      ELSE lastAssigned[a.id] - lastAssigned[b.id]

pickWorkersOneShort(pool, hoursWorked, N, lastAssigned) ==
  Slice(StableSort(pool, [i, j \in 1..Len(pool) |->
                            ComparePick(pool[i], pool[j], hoursWorked, lastAssigned)]),
        N - 1)

pickWorkers(pool, hoursWorked, N, lastAssigned) ==
  Slice(StableSort(pool, [i, j \in 1..Len(pool) |->
                            ComparePick(pool[i], pool[j], hoursWorked, lastAssigned)]),
        N)

Ids(picked) == [k \in 1..Len(picked) |-> picked[k].id]

\* hoursWorked[u._id] += dur for every picked worker.
AddHours(hoursWorked, picked, dur) ==
  [id \in DOMAIN hoursWorked |->
     IF id \in Range(Ids(picked)) THEN hoursWorked[id] + dur ELSE hoursWorked[id]]

(***************************************************************************)
(* Date.now().  The wall clock is an input of the run; three behaviours    *)
(* are enumerated: the whole run falls into one millisecond ("run"), the   *)
(* clock advances between blocks only ("block"), or every call returns a   *)
(* later value than the call before ("call").  Stamp writes                *)
(* lastAssigned[u._id] = Date.now() for the picked workers, the k-th call  *)
(* after `calls` earlier calls of the same block.                          *)
(***************************************************************************)
Now(clock, grain, calls) ==
  CASE grain = "run" -> clock
    [] grain = "block" -> clock + 1
    [] OTHER -> clock + calls + 1

Stamp(lastAssigned, picked, clock, grain, calls) ==
  [id \in DOMAIN lastAssigned |->
     IF \E k \in 1..Len(picked) : picked[k].id = id
     THEN Now(clock, grain, calls + (CHOOSE k \in 1..Len(picked) : picked[k].id = id) - 1)
     ELSE lastAssigned[id]]

ClockAfter(clock, grain, calls) ==
  CASE grain = "run" -> clock
    [] grain = "block" -> clock + 1
    [] OTHER -> clock + calls

Entry(shift, type, picked) ==
  [date |-> shift.date, startTime |-> shift.startTime, endTime |-> shift.endTime,
   shiftType |-> type, assignedTo |-> Ids(picked)]

ViolationAtEnd(type, shift) == <<type, shift.date, shift.endTime>>

Violation(type, shift) == <<type, shift.date, shift.startTime>>

(***************************************************************************)
(* autoAssignFinals, DAY_SLICES variant.                                   *)
(***************************************************************************)
RECURSIVE FlattenSlices(_)
FlattenSlices(days) ==
  IF days = <<>> THEN <<>>
  ELSE [k \in 1..Len(days[1].slices) |->
          [date |-> days[1].date,
           startTime |-> days[1].slices[k][1],
           endTime |-> days[1].slices[k][2]]]
       \o FlattenSlices(Tail(days))

\* The shifts of the two nested for loops, in iteration order.
SliceShifts == FlattenSlices(DAY_SLICES)

Core(users) == SelectSeq(users, LAMBDA u : ~u.isFloater)

Floaters(users) == SelectSeq(users, LAMBDA u : u.isFloater)

\* One iteration of the inner loop: the Window pass then the Remote pass.
\* st is [schedule, violations, hoursWorked, lastWin, lastRem, clock].
SliceIteration(st, users, finals, shift, grain) ==
  LET core == Core(users)
      floaters == Floaters(users)
      dur == Duration(shift)
      poolW0 == findEligible(core, finals, shift, st.hoursWorked, dur, TARGET_HOURS)
      poolW == IF Len(poolW0) < WINDOW_MIN
               THEN findEligible(floaters, finals, shift, st.hoursWorked, dur, MAX_HOURS)
               ELSE poolW0
      winCount == Min2(WINDOW_MAX, WINDOW_MIN)
      win == pickWorkers(poolW, st.hoursWorked, winCount, st.lastWin)
      viol1 == IF Len(win) < WINDOW_MIN
               THEN Append(st.violations, Violation("Window", shift))
               ELSE st.violations
      hours1 == AddHours(st.hoursWorked, win, dur)
      poolR0 == findEligible(core, finals, shift, hours1, dur, TARGET_HOURS)
      poolR == IF Len(poolR0) < REMOTE_MIN
               THEN findEligible(floaters, finals, shift, hours1, dur, MAX_HOURS)
               ELSE poolR0
      rem == pickWorkers(poolR, hours1, REMOTE_MIN, st.lastRem)
      viol2 == IF Len(rem) < REMOTE_MIN
               THEN Append(viol1, Violation("Remote", shift))
               ELSE viol1
  IN  [schedule |-> st.schedule \o <<Entry(shift, "Window", win),
                                     Entry(shift, "Remote", rem)>>,
       violations |-> viol2,
       hoursWorked |-> AddHours(hours1, rem, dur),
       lastWin |-> Stamp(st.lastWin, win, st.clock, grain, 0),
       lastRem |-> Stamp(st.lastRem, rem, st.clock, grain, Len(win)),
       clock |-> ClockAfter(st.clock, grain, Len(win) + Len(rem))]

(***************************************************************************)
(* balanceHours of the DAY_SLICES variant: every core worker under         *)
(* TARGET_HOURS at entry scans the schedule in order and joins Remote      *)
(* entries until the worker's need is met.  bs is [schedule, hoursWorked]. *)
(***************************************************************************)
RECURSIVE ScanShiftsNoTally(_, _, _, _, _)
ScanShiftsNoTally(bs, u, k, need, finals) ==
  IF k > Len(bs.schedule) \/ need <= 0 THEN bs
  ELSE LET shift == bs.schedule[k]
       IN  IF \/ shift.shiftType # "Remote"
              \/ Len(shift.assignedTo) >= REMOTE_MAX
              \/ u.id \in Range(shift.assignedTo)
              \/ HasExamConflict(u, finals, shift)
           THEN ScanShiftsNoTally(bs, u, k + 1, need, finals)
           ELSE ScanShiftsNoTally(
                  [schedule |-> [bs.schedule EXCEPT ![k].assignedTo = Append(@, u.id)],
                   hoursWorked |-> bs.hoursWorked],
                  u, k + 1, need - Duration(shift), finals)

RECURSIVE ScanShiftsNoCapacity(_, _, _, _, _)
ScanShiftsNoCapacity(bs, u, k, need, finals) ==
  IF k > Len(bs.schedule) \/ need <= 0 THEN bs
  ELSE LET shift == bs.schedule[k]
       IN  IF \/ shift.shiftType # "Remote"
              \/ u.id \in Range(shift.assignedTo)
              \/ HasExamConflict(u, finals, shift)
           THEN ScanShiftsNoCapacity(bs, u, k + 1, need, finals)
           ELSE ScanShiftsNoCapacity(
                  [schedule |-> [bs.schedule EXCEPT ![k].assignedTo = Append(@, u.id)],
                   hoursWorked |-> [bs.hoursWorked EXCEPT ![u.id] = @ + Duration(shift)]],
                  u, k + 1, need - Duration(shift), finals)

RECURSIVE ScanShiftsAnyType(_, _, _, _, _)
ScanShiftsAnyType(bs, u, k, need, finals) ==
  IF k > Len(bs.schedule) \/ need <= 0 THEN bs
  ELSE LET shift == bs.schedule[k]
       IN  IF \/ Len(shift.assignedTo) >= REMOTE_MAX
              \/ u.id \in Range(shift.assignedTo)
              \/ HasExamConflict(u, finals, shift)
           THEN ScanShiftsAnyType(bs, u, k + 1, need, finals)
           ELSE ScanShiftsAnyType(
                  [schedule |-> [bs.schedule EXCEPT ![k].assignedTo = Append(@, u.id)],
                   hoursWorked |-> [bs.hoursWorked EXCEPT ![u.id] = @ + Duration(shift)]],
                  u, k + 1, need - Duration(shift), finals)

RECURSIVE ScanShifts(_, _, _, _, _)
ScanShifts(bs, u, k, need, finals) ==
  IF k > Len(bs.schedule) \/ need <= 0 THEN bs
  ELSE LET shift == bs.schedule[k]
       IN  IF \/ shift.shiftType # "Remote"
              \/ Len(shift.assignedTo) >= REMOTE_MAX
              \/ u.id \in Range(shift.assignedTo)
              \/ HasExamConflict(u, finals, shift)
           THEN ScanShifts(bs, u, k + 1, need, finals)
           ELSE ScanShifts(
                  [schedule |-> [bs.schedule EXCEPT ![k].assignedTo = Append(@, u.id)],
                   hoursWorked |-> [bs.hoursWorked EXCEPT ![u.id] = @ + Duration(shift)]],
                  u, k + 1, need - Duration(shift), finals)

RECURSIVE BalanceEach(_, _, _)
BalanceEach(bs, under, finals) ==
  IF under = <<>> THEN bs
  ELSE LET u == Head(under)
       IN  BalanceEach(
             ScanShifts(bs, u, 1, TARGET_HOURS - bs.hoursWorked[u.id], finals),
             Tail(under), finals)

balanceHours(schedule, coreUsers, hoursWorked, finals) ==
  BalanceEach([schedule |-> schedule, hoursWorked |-> hoursWorked],
              SelectSeq(coreUsers, LAMBDA u : hoursWorked[u.id] < TARGET_HOURS),
              finals)

(***************************************************************************)
(* autoAssignFinals, generated-blocks variant.                             *)
(***************************************************************************)
roundUpToHour(minutes) == ((minutes + 59) \div 60) * 60

\* The inner for loop: durations of 2, 3 and 4 hours from cur.
RECURSIVE CandidateDurations(_, _, _, _)
CandidateDurations(dateStr, cur, duration, endMin) ==
  IF duration > 240 THEN <<>>
  ELSE (IF cur + duration <= endMin /\ (cur + duration) % 60 = 0
        THEN << [date |-> dateStr, startTime |-> toTime(cur),
                 endTime |-> toTime(cur + duration)] >>
        ELSE <<>>)
       \o CandidateDurations(dateStr, cur, duration + 60, endMin)

\* The while loop: cur advances by one hour.
RECURSIVE CandidateBlocks(_, _, _)
CandidateBlocks(dateStr, cur, endMin) ==
  IF cur >= endMin THEN <<>>
  ELSE CandidateDurations(dateStr, cur, 120, endMin)
       \o CandidateBlocks(dateStr, cur + 60, endMin)

KeepEvery(kept, out, i) == out

\* The filter loop: keep a block when it starts at or after the end of the
\* last block kept.
RECURSIVE KeepSpaced(_, _, _)
KeepSpaced(kept, out, i) ==
  IF i > Len(out) THEN kept
  ELSE IF toMinutes(out[i].startTime) >= toMinutes(kept[Len(kept)].endTime)
       THEN KeepSpaced(Append(kept, out[i]), out, i + 1)
       ELSE KeepSpaced(kept, out, i + 1)

generateTimeBlocksForDay(dateStr, start, end) ==
  LET out == CandidateBlocks(dateStr, roundUpToHour(toMinutes(start)), toMinutes(end))
  IN  IF Len(out) > 0 THEN KeepSpaced(<<out[1]>>, out, 2) ELSE <<>>

RECURSIVE FlattenBlocks(_)
FlattenBlocks(days) ==
  IF days = <<>> THEN <<>>
  ELSE generateTimeBlocksForDay(days[1].date, days[1].open, days[1].close)
       \o FlattenBlocks(Tail(days))

\* The blocks of the two nested for loops, in iteration order.
GeneratedBlocks == FlattenBlocks(businessHours)

\* Stage-based eligible finder: stage 2 lifts the cap to MAX_HOURS.
findEligibleStage(users, finals, shift, hoursWorked, dur, minStage) ==
  SelectSeq(users, LAMBDA u :
    /\ u.isActive
    /\ ~(u.isCommuter /\ toMinutes(shift.startTime) < 9 * 60)
    /\ ~(hoursWorked[u.id] + dur > (IF minStage = 2 THEN MAX_HOURS ELSE TARGET_HOURS))
    /\ ~HasExamConflict(u, finals, shift))

\* Entries of the schedule of the given type at the block's date and start.
SameStart(schedule, type, block) ==
  SelectSeq(schedule, LAMBDA s :
    /\ s.shiftType = type
    /\ s.date = block.date
    /\ toMinutes(s.startTime) = toMinutes(block.startTime))

AlreadyIn(schedule, type, block, u) ==
  \E i \in 1..Len(schedule) :
    /\ schedule[i].shiftType = type
    /\ schedule[i].date = block.date
    /\ toMinutes(schedule[i].startTime) = toMinutes(block.startTime)
    /\ u.id \in Range(schedule[i].assignedTo)

\* One iteration of the block loop: eligible workers, Window, Remote.
BlockIteration(st, users, finals, block, grain) ==
  LET core == Core(users)
      floaters == Floaters(users)
      dur == Duration(block)
      eligibleCore1 == findEligibleStage(core, finals, block, st.hoursWorked, dur, 1)
      eligibleCore == IF Len(eligibleCore1) = 0
                      THEN findEligibleStage(core, finals, block, st.hoursWorked, dur, 2)
                      ELSE eligibleCore1
      eligibleFloaters == findEligibleStage(floaters, finals, block, st.hoursWorked, dur, 2)
      allEligible == eligibleCore \o eligibleFloaters
      currentWindowAssignments == Len(SameStart(st.schedule, "Window", block))
      neededWindow == Max2(0, WINDOW_MIN - currentWindowAssignments)
      canAssignWindow == Min2(WINDOW_MAX - currentWindowAssignments, Len(allEligible))
      numToAssignWindow == Min2(canAssignWindow, neededWindow)
      windowEligible == SelectSeq(allEligible, LAMBDA u :
                          ~AlreadyIn(st.schedule, "Window", block, u))
      windowWorkers == pickWorkers(windowEligible, st.hoursWorked, numToAssignWindow,
                                   st.lastWin)
      viol1 == IF Len(windowWorkers) < neededWindow
               THEN Append(st.violations, Violation("Window", block))
               ELSE st.violations
      schedule1 == Append(st.schedule, Entry(block, "Window", windowWorkers))
      hours1 == AddHours(st.hoursWorked, windowWorkers, dur)
      currentRemoteAssignments == Len(SameStart(schedule1, "Remote", block))
      neededRemote == Max2(0, REMOTE_MIN - currentRemoteAssignments)
      canAssignRemote == Min2(REMOTE_MAX - currentRemoteAssignments,
                              Len(allEligible) - Len(windowWorkers))
      numToAssignRemote == Min2(canAssignRemote, neededRemote)
      remoteEligible == SelectSeq(allEligible, LAMBDA u :
                          /\ u.id \notin Range(Ids(windowWorkers))
                          /\ ~AlreadyIn(schedule1, "Remote", block, u))
      remoteWorkers == pickWorkers(remoteEligible, hours1, numToAssignRemote, st.lastRem)
      viol2 == IF Len(remoteWorkers) < neededRemote
               THEN Append(viol1, Violation("Remote", block))
               ELSE viol1
  IN  [schedule |-> Append(schedule1, Entry(block, "Remote", remoteWorkers)),
       violations |-> viol2,
       hoursWorked |-> AddHours(hours1, remoteWorkers, dur),
       lastWin |-> Stamp(st.lastWin, windowWorkers, st.clock, grain, 0),
       lastRem |-> Stamp(st.lastRem, remoteWorkers, st.clock, grain, Len(windowWorkers)),
       clock |-> ClockAfter(st.clock, grain, Len(windowWorkers) + Len(remoteWorkers))]

(***************************************************************************)
(* balanceHours of the generated-blocks variant (defined there, not called *)
(* by its autoAssignFinals): the hours added are min(4, TARGET - hours),   *)
(* not the length of the shift joined.                                     *)
(***************************************************************************)
RECURSIVE TopUpShifts(_, _, _, _)
TopUpShifts(bs, user, k, neededHours) ==
  IF k > Len(bs.schedule) THEN bs
  ELSE LET shift == bs.schedule[k]
           duration == Min2(4, TARGET_HOURS - bs.hoursWorked[user.id])
       IN  IF \/ neededHours <= 0
              \/ shift.shiftType # "Remote"
              \/ Len(shift.assignedTo) >= 4
              \/ bs.hoursWorked[user.id] + duration > MAX_HOURS
              \/ user.id \in Range(shift.assignedTo)
           THEN TopUpShifts(bs, user, k + 1, neededHours)
           ELSE TopUpShifts(
                  [schedule |-> [bs.schedule EXCEPT ![k].assignedTo = Append(@, user.id)],
                   hoursWorked |-> [bs.hoursWorked EXCEPT ![user.id] = @ + duration]],
                  user, k + 1, neededHours - duration)

RECURSIVE TopUpEach(_, _)
TopUpEach(bs, underworkedUsers) ==
  IF underworkedUsers = <<>> THEN bs
  ELSE LET user == Head(underworkedUsers)
       IN  TopUpEach(
             TopUpShifts(bs, user, 1, TARGET_HOURS - bs.hoursWorked[user.id]),
             Tail(underworkedUsers))

balanceHoursBlocks(schedule, users, hoursWorked) ==
  TopUpEach([schedule |-> schedule, hoursWorked |-> hoursWorked],
            SelectSeq(users, LAMBDA u : hoursWorked[u.id] < TARGET_HOURS))

(***************************************************************************)
(* V3 greedy: assignShifts then fillWithFloaters.  A block carries the     *)
(* list freeUsers of the ids free during it.                               *)
(***************************************************************************)
\* (hoursWorked < TARGET_HOURS first) then ascending hours.
CompareV3(a, b, hoursWorked) ==
  LET fa == IF hoursWorked[a] < TARGET_HOURS THEN 0 ELSE 1
      fb == IF hoursWorked[b] < TARGET_HOURS THEN 0 ELSE 1
  IN  IF fa - fb # 0 THEN fa - fb ELSE hoursWorked[a] - hoursWorked[b]

Candidates(block, hoursWorked) ==
  LET free == SelectSeq(block.freeUsers, LAMBDA u :
                u \in DOMAIN hoursWorked /\ hoursWorked[u] < MAX_HOURS)
  IN  StableSort(free, [i, j \in 1..Len(free) |->
                          CompareV3(free[i], free[j], hoursWorked)])

AddHoursIds(hoursWorked, ids, dur) ==
  [id \in DOMAIN hoursWorked |->
     IF id \in Range(ids) THEN hoursWorked[id] + dur ELSE hoursWorked[id]]

EntryV3(block, type, ids) ==
  [date |-> block.date, startTime |-> block.startTime, endTime |-> block.endTime,
   freeUsers |-> block.freeUsers, shiftType |-> type, assignedTo |-> ids]

\* One iteration of blocks.forEach.  vs is [schedule, hoursWorked].
assignShiftsIteration(vs, block) ==
  LET dur == Duration(block)
      candidatesW == Candidates(block, vs.hoursWorked)
      windowPicks == Slice(candidatesW, Min2(Min2(2, Len(candidatesW)), 1))
      schedule1 == vs.schedule \o
                     [k \in 1..Len(windowPicks) |->
                        EntryV3(block, "Window", <<windowPicks[k]>>)]
      hours1 == AddHoursIds(vs.hoursWorked, windowPicks, dur)
      candidatesR == Candidates(block, hours1)
      remotePicks == Slice(candidatesR, Min2(Min2(4, Len(candidatesR)), 2))
  IN  [schedule |-> Append(schedule1, EntryV3(block, "Remote", remotePicks)),
       hoursWorked |-> AddHoursIds(hours1, remotePicks, dur)]

\* One iteration of schedule.forEach in fillWithFloaters, on entry k.
fillWithFloatersIteration(vs, floaters, k) ==
  LET shift == vs.schedule[k]
      dur == Duration(shift)
      needed == IF shift.shiftType = "Window"
                THEN 1 - Len(shift.assignedTo)
                ELSE 2 - Len(shift.assignedTo)
      under == SelectSeq(floaters, LAMBDA u : vs.hoursWorked[u.id] + dur <= MAX_HOURS)
      cands == StableSort(under, [i, j \in 1..Len(under) |->
                 vs.hoursWorked[under[i].id] - vs.hoursWorked[under[j].id]])
      added == Ids(Slice(cands, needed))
  IN  IF needed > 0
      THEN [schedule |-> [vs.schedule EXCEPT ![k].assignedTo = @ \o added],
            hoursWorked |-> AddHoursIds(vs.hoursWorked, added, dur)]
      ELSE vs

(***************************************************************************)
(* State.                                                                  *)
(***************************************************************************)
VARIABLES
  variant,      \* which procedure runs: "slices", "blocks" or "v3"
  grain,        \* behaviour of the wall clock during the run
  users,        \* result of User.find({ isActive: true }), in roster order
  finals,       \* result of Final.find()
  blocks,       \* the shifts or blocks the main loop iterates over
  idx,          \* position of the running loop
  schedule,
  violations,
  hoursWorked,
  lastWin,      \* lastWin / lastAssignedWindow, 0 = never assigned
  lastRem,      \* lastRem / lastAssignedRemote, 0 = never assigned
  clock,        \* last value returned by Date.now()
  pc,
  summary,      \* the summary of the returned object
  call,         \* a helper function and the arguments it is called with
  result,       \* what the helper returned
  shifts,       \* the Shift collection autoAssignShifts reads and saves
  assignedShifts,
  dateParses,   \* whether new Date(`${doc.date}T${doc.startTime}`) is a valid Date
  mockUsers,    \* the roster store of the client-side api service
  mockBusyTimes,
  calls,        \* number of addUser / deleteUser calls or requests served
  isAuthenticated,  \* state of the App component
  userRole,
  userEmail,
  appIsLoading,     \* isLoading of the App component
  location,         \* the path the router is at
  localStorage,     \* the 'user' and 'token' items
  loggedOut,        \* handleLogout has run and handleLogin has not run since
  selectedUser,     \* state of the AdminPage component
  busyTimes,
  isLoading,        \* isLoading of the AdminPage component
  showAddUserForm,
  showDeleteModal,
  timers,           \* pending delay(800) timers of the api service, oldest first
  fetching          \* fetchUsers requests in flight

vars == <<variant, grain, users, finals, blocks, idx, schedule, violations,
          hoursWorked, lastWin, lastRem, clock, pc, summary,
          call, result, shifts, assignedShifts, dateParses, mockUsers,
          mockBusyTimes, calls,
          isAuthenticated, userRole, userEmail, appIsLoading, location,
          localStorage, loggedOut,
          selectedUser, busyTimes, isLoading, showAddUserForm, showDeleteModal,
          timers, fetching>>

\* State of the React client.
frontend ==
  <<isAuthenticated, userRole, userEmail, appIsLoading, location, localStorage,
    loggedOut, selectedUser, busyTimes, isLoading, showAddUserForm, showDeleteModal,
    timers, fetching>>

\* localStorage without the items: an absent item is <<>>, a stored one <<value>>.
NoStorage == [user |-> <<>>, token |-> <<>>]

FrontendIdle ==
  /\ isAuthenticated = FALSE
  /\ userRole = ""
  /\ userEmail = ""
  /\ appIsLoading = FALSE
  /\ location = "/"
  /\ localStorage = NoStorage
  /\ loggedOut = FALSE
  /\ selectedUser = ""
  /\ busyTimes = <<>>
  /\ isLoading = FALSE
  /\ showAddUserForm = FALSE
  /\ showDeleteModal = FALSE
  /\ timers = <<>>
  /\ fetching = 0

\* autoAssignFinals touches neither the helper call under test, nor the Shift
\* collection, nor the client-side store, nor the React client.
elsewhere ==
  <<call, result, shifts, assignedShifts, dateParses, mockUsers, mockBusyTimes, calls,
    frontend>>

NoCall == [fn |-> "none"]

ElsewhereIdle ==
  /\ call = NoCall
  /\ result = NoCall
  /\ shifts = <<>>
  /\ assignedShifts = <<>>
  /\ dateParses = TRUE
  /\ mockUsers = <<>>
  /\ mockBusyTimes = <<>>
  /\ calls = 0
  /\ FrontendIdle

loopState ==
  [schedule |-> schedule, violations |-> violations, hoursWorked |-> hoursWorked,
   lastWin |-> lastWin, lastRem |-> lastRem, clock |-> clock]

(***************************************************************************)
(* Inputs.                                                                 *)
(***************************************************************************)
\* User.find({ isActive: true }) returns active workers only; the rosters
\* enumerated hold plain workers, commuters and floaters.
Profiles ==
  {p \in [isActive : {TRUE}, isCommuter : BOOLEAN, isFloater : BOOLEAN] :
     ~(p.isCommuter /\ p.isFloater)}

Roster(n, profile) ==
  [i \in 1..n |-> [id |-> i, isActive |-> profile[i].isActive,
                   isCommuter |-> profile[i].isCommuter,
                   isFloater |-> profile[i].isFloater]]

\* Every roster of up to MaxWorkers workers, and one of FullStaff plain workers.
Rosters ==
  UNION {{Roster(n, p) : p \in [1..n -> Profiles]} : n \in 0..MaxWorkers}
    \cup {Roster(FullStaff, [i \in 1..FullStaff |->
                               [isActive |-> TRUE, isCommuter |-> FALSE,
                                isFloater |-> FALSE]])}

ExamChoices ==
  { [date |-> "2025-05-12", startTime |-> <<8, 0>>, endTime |-> <<10, 0>>],
    [date |-> "2025-05-12", startTime |-> <<11, 30>>, endTime |-> <<13, 0>>],
    [date |-> "", startTime |-> <<8, 0>>, endTime |-> <<10, 0>>] }

Exam(u, e) ==
  [userId |-> u, date |-> e.date, startTime |-> e.startTime, endTime |-> e.endTime]

\* No exam, or one exam of the first or of the last worker of the roster.
ExamSets(n) ==
  {{}} \cup {{Exam(u, e)} : u \in {1, n} \cap (1..n), e \in ExamChoices}

NoSummary == [totalBlocks |-> 0, violations |-> <<>>, underworked |-> <<>>,
              allConstraintsMet |-> FALSE]

Zero(us) == [id \in Range(Ids(us)) |-> 0]

(***************************************************************************)
(* autoAssignFinals: both variants.                                        *)
(***************************************************************************)
Init ==
  /\ variant \in {"slices", "blocks"}
  /\ grain \in {"run", "block", "call"}
  /\ users \in Rosters
  /\ finals \in ExamSets(Len(users))
  /\ blocks = IF variant = "slices" THEN SliceShifts ELSE GeneratedBlocks
  /\ idx = 1
  /\ schedule = <<>>
  /\ violations = <<>>
  /\ hoursWorked = Zero(users)
  /\ lastWin = Zero(users)
  /\ lastRem = Zero(users)
  /\ clock = 1
  /\ pc = "loop"
  /\ summary = NoSummary
  /\ ElsewhereIdle

SetLoopState(st) ==
  /\ schedule' = st.schedule
  /\ violations' = st.violations
  /\ hoursWorked' = st.hoursWorked
  /\ lastWin' = st.lastWin
  /\ lastRem' = st.lastRem
  /\ clock' = st.clock

\* for (let [start,end] of slices) { ... } of the DAY_SLICES variant
LoopSlices ==
  /\ pc = "loop"
  /\ variant = "slices"
  /\ idx <= Len(blocks)
  /\ SetLoopState(SliceIteration(loopState, users, finals, blocks[idx], grain))
  /\ idx' = idx + 1
  /\ pc' = IF idx = Len(blocks) THEN "balance" ELSE "loop"
  /\ UNCHANGED <<variant, grain, users, finals, blocks, summary>>
  /\ UNCHANGED elsewhere

\* balanceHours(schedule, core, hoursWorked, finals)
Balance ==
  /\ pc = "balance"
  /\ LET bs == balanceHours(schedule, Core(users), hoursWorked, finals)
     IN  /\ schedule' = bs.schedule
         /\ hoursWorked' = bs.hoursWorked
  /\ pc' = "summary"
  /\ UNCHANGED <<variant, grain, users, finals, blocks, idx, violations,
                 lastWin, lastRem, clock, summary>>
  /\ UNCHANGED elsewhere

\* for (const block of blocks) { ... } of the generated-blocks variant
LoopBlocks ==
  /\ pc = "loop"
  /\ variant = "blocks"
  /\ idx <= Len(blocks)
  /\ SetLoopState(BlockIteration(loopState, users, finals, blocks[idx], grain))
  /\ idx' = idx + 1
  /\ pc' = IF idx = Len(blocks) THEN "summary" ELSE "loop"
  /\ UNCHANGED <<variant, grain, users, finals, blocks, summary>>
  /\ UNCHANGED elsewhere

\* build summary; return { summary, schedule }
Return ==
  /\ pc = "summary"
  /\ variant \in {"slices", "blocks"}
  /\ summary' =
       [totalBlocks |-> Len(schedule),
        violations |-> violations,
        underworked |->
          Ids(SelectSeq(IF variant = "slices" THEN Core(users) ELSE users,
                        LAMBDA u : hoursWorked[u.id] < TARGET_HOURS)),
        allConstraintsMet |-> (Len(violations) = 0)]
  /\ pc' = "done"
  /\ UNCHANGED <<variant, grain, users, finals, blocks, idx, schedule, violations,
                 hoursWorked, lastWin, lastRem, clock>>
  /\ UNCHANGED elsewhere

Next == LoopSlices \/ Balance \/ LoopBlocks \/ Return

Spec == Init /\ [][Next]_vars

(***************************************************************************)
(* The whole run as a function of its inputs.                              *)
(***************************************************************************)
RECURSIVE RunLoop(_, _, _, _, _, _, _)
RunLoop(st, v, us, fs, bl, k, g) ==
  IF k > Len(bl) THEN st
  ELSE RunLoop(IF v = "slices" THEN SliceIteration(st, us, fs, bl[k], g)
               ELSE BlockIteration(st, us, fs, bl[k], g),
               v, us, fs, bl, k + 1, g)

\* The schedule autoAssignFinals returns for the given inputs and clock.
ReturnedSchedule(v, us, fs, g) ==
  LET st0 == [schedule |-> <<>>, violations |-> <<>>, hoursWorked |-> Zero(us),
              lastWin |-> Zero(us), lastRem |-> Zero(us), clock |-> 1]
      st == RunLoop(st0, v, us, fs,
                    IF v = "slices" THEN SliceShifts ELSE GeneratedBlocks, 1, g)
  IN  IF v = "slices"
      THEN balanceHours(st.schedule, Core(us), st.hoursWorked, fs).schedule
      ELSE st.schedule

(***************************************************************************)
(* Vocabulary of the properties.                                           *)
(***************************************************************************)
Returned == pc = "done"

StartsBeforeNine(e) == toMinutes(e.startTime) < 9 * 60

\* The entry lies on the date of the exam and overlaps it in time.
Overlaps(e, f) ==
  /\ f.date # ""
  /\ e.date = f.date
  /\ toMinutes(e.startTime) < toMinutes(f.endTime)
  /\ toMinutes(e.endTime) > toMinutes(f.startTime)

\* available_workers: active, not a commuter before 09:00, no exam conflict.
IsAvailable(u, e) ==
  /\ u.isActive
  /\ ~(u.isCommuter /\ StartsBeforeNine(e))
  /\ \A f \in finals : f.userId = u.id => ~Overlaps(e, f)

AvailableIds(us, e) == {us[i].id : i \in {j \in 1..Len(us) : IsAvailable(us[j], e)}}

\* Hours of the schedule entries a worker is an assignee of.
RECURSIVE AssignedHours(_, _)
AssignedHours(sch, id) ==
  IF sch = <<>> THEN 0
  ELSE (IF id \in Range(Head(sch).assignedTo) THEN Duration(Head(sch)) ELSE 0)
       + AssignedHours(Tail(sch), id)

\* A block has just been processed and nothing has touched the tallies since.
JustProcessed ==
  /\ variant \in {"slices", "blocks"}
  /\ idx > 1
  /\ (pc \in {"loop", "balance"} \/ variant = "blocks")

LastBlock == blocks[idx - 1]

LastWindow == schedule[Len(schedule) - 1]

LastRemote == schedule[Len(schedule)]

\* hoursWorked as it was when the last block was about to be processed.
HoursBefore ==
  [id \in DOMAIN hoursWorked |->
     hoursWorked[id]
       - (IF id \in Range(LastWindow.assignedTo) THEN Duration(LastBlock) ELSE 0)
       - (IF id \in Range(LastRemote.assignedTo) THEN Duration(LastBlock) ELSE 0)]

\* Core workers available for the last block whose hours, with the block
\* added, stay within cap.
CoreWithin(cap) ==
  {id \in AvailableIds(Core(users), LastBlock) : HoursBefore[id] + Duration(LastBlock) <= cap}

(***************************************************************************)
(* C1.  Commuter invariant of the DAY_SLICES variant: in the returned      *)
(* schedule no assignee of an entry starting before 09:00 is a commuter.   *)
(***************************************************************************)
C1_CommuterInvariant ==
  (Returned /\ variant = "slices") =>
    \A i \in 1..Len(schedule) :
      StartsBeforeNine(schedule[i]) =>
        \A id \in Range(schedule[i].assignedTo) : ~users[id].isCommuter

(***************************************************************************)
(* C2.  No double-booking inside one time block: in the schedule returned  *)
(* by the DAY_SLICES variant no worker is an assignee of both the Window   *)
(* and the Remote entry of the same date, start and end.                   *)
(***************************************************************************)
C2_NoDoubleBooking ==
  (Returned /\ variant = "slices") =>
    \A i, j \in 1..Len(schedule) :
      (/\ schedule[i].shiftType = "Window"
       /\ schedule[j].shiftType = "Remote"
       /\ schedule[i].date = schedule[j].date
       /\ schedule[i].startTime = schedule[j].startTime
       /\ schedule[i].endTime = schedule[j].endTime)
      => Range(schedule[i].assignedTo) \cap Range(schedule[j].assignedTo) = {}

(***************************************************************************)
(* C3.  Hour cap of both autoAssignFinals variants: after every iteration  *)
(* of the main loop and after balanceHours, every worker's tally           *)
(* hoursWorked, and the hours of the entries assigned to the worker, are   *)
(* at most MAX_HOURS.                                                      *)
(***************************************************************************)
C3_HourCap ==
  variant \in {"slices", "blocks"} =>
    \A id \in DOMAIN hoursWorked :
      /\ hoursWorked[id] <= MAX_HOURS
      /\ AssignedHours(schedule, id) <= MAX_HOURS

\* A worker ends the run exactly at the cap while a block went undercovered.
C3_Witness ==
  /\ Returned
  /\ variant \in {"slices", "blocks"}
  /\ \E id \in DOMAIN hoursWorked : hoursWorked[id] = MAX_HOURS
  /\ Len(violations) > 0

(***************************************************************************)
(* C5.  Exam-conflict exclusion: in every schedule either variant builds,  *)
(* and in the schedule it returns, no assignee of an entry has an exam on  *)
(* the entry's date that overlaps the entry in time.                       *)
(***************************************************************************)
C5_ExamExclusion ==
  variant \in {"slices", "blocks"} =>
    \A i \in 1..Len(schedule) :
      \A id \in Range(schedule[i].assignedTo) :
        \A f \in finals : f.userId = id => ~Overlaps(schedule[i], f)

\* A worker with an exam was kept out of an overlapping entry that others
\* staff, and works elsewhere in the returned schedule.
C5_Witness ==
  /\ Returned
  /\ variant \in {"slices", "blocks"}
  /\ \E f \in finals : \E i \in 1..Len(schedule) :
       /\ Overlaps(schedule[i], f)
       /\ Len(schedule[i].assignedTo) > 0
       /\ hoursWorked[f.userId] > 0

C7_RelaxToMaxHours ==
  JustProcessed =>
    /\ Cardinality(CoreWithin(MAX_HOURS)) >= WINDOW_MIN
         => Len(LastWindow.assignedTo) >= WINDOW_MIN
    /\ Cardinality(CoreWithin(MAX_HOURS) \ Range(LastWindow.assignedTo)) >= REMOTE_MIN
         => Len(LastRemote.assignedTo) >= REMOTE_MIN

(***************************************************************************)
(* C8.  Determinism: whatever Date.now() returns during the run, every     *)
(* entry of the returned schedule has the assignees it has in the schedule *)
(* returned for the same workers and exams when the whole run falls into   *)
(* one millisecond.                                                        *)
(***************************************************************************)
Staffing(sch) ==
  [i \in 1..Len(sch) |->
     <<sch[i].date, sch[i].startTime, sch[i].endTime, sch[i].shiftType,
       Range(sch[i].assignedTo)>>]

C8_Determinism ==
  (Returned /\ variant \in {"slices", "blocks"}) =>
    Staffing(schedule) = Staffing(ReturnedSchedule(variant, users, finals, "run"))

(***************************************************************************)
(* C9.  Balance step idempotence: balanceHours applied to the schedule and *)
(* hoursWorked a first run left changes neither.  For the generated-blocks *)
(* variant, whose autoAssignFinals does not call it, the first run is on   *)
(* the returned schedule.                                                  *)
(***************************************************************************)
C9_BalanceIdempotent ==
  /\ (pc \in {"summary", "done"} /\ variant = "slices") =>
       balanceHours(schedule, Core(users), hoursWorked, finals)
         = [schedule |-> schedule, hoursWorked |-> hoursWorked]
  /\ (Returned /\ variant = "blocks") =>
       LET once == balanceHoursBlocks(schedule, users, hoursWorked)
       IN  balanceHoursBlocks(once.schedule, users, once.hoursWorked) = once

\* balanceHours has added a worker to a Remote entry of the returned schedule.
C9_Witness ==
  /\ Returned
  /\ variant = "slices"
  /\ \E i \in 1..Len(schedule) :
       schedule[i].shiftType = "Remote" /\ Len(schedule[i].assignedTo) > REMOTE_MIN

(***************************************************************************)
(* C10.  Balance-hours postcondition: after balanceHours every core worker *)
(* has reached TARGET_HOURS or has no Remote entry with spare capacity     *)
(* left that the worker is available for and not yet in; and balanceHours  *)
(* adds a worker only to Remote entries the worker is available for.       *)
(***************************************************************************)
NothingLeftToJoin ==
  \A c \in 1..Len(Core(users)) :
    LET u == Core(users)[c]
    IN  \/ hoursWorked[u.id] >= TARGET_HOURS
        \/ ~\E i \in 1..Len(schedule) :
              /\ schedule[i].shiftType = "Remote"
              /\ Len(schedule[i].assignedTo) < REMOTE_MAX
              /\ u.id \notin Range(schedule[i].assignedTo)
              /\ IsAvailable(u, schedule[i])

C10_BalancePostcondition ==
  [][pc = "balance" =>
       /\ NothingLeftToJoin'
       /\ \A i \in 1..Len(schedule) :
            \A id \in Range(schedule'[i].assignedTo) \ Range(schedule[i].assignedTo) :
              /\ schedule[i].shiftType = "Remote"
              /\ IsAvailable(users[id], schedule[i])]_vars

(***************************************************************************)
(* autoAssignFinalsV3.  getFreeIntervals and generateTimeBlocks are left   *)
(* unwritten in the source; the blocks are an input of the shape their     *)
(* comments give: [ { date, startTime, endTime, freeUsers: [userId,...] } ]*)
(* with blocks of 3 or 4 hours.                                            *)
(***************************************************************************)
\* The last worker of the roster may be a floater; V3 reads no other flag.
RostersV3 ==
  UNION {{Roster(n, [i \in 1..n |->
                       [isActive |-> TRUE, isCommuter |-> FALSE,
                        isFloater |-> (i = n /\ fl)]]) : fl \in BOOLEAN}
         : n \in 1..MaxWorkers}

BlockTimesV3 ==
  { [startTime |-> <<8, 0>>, endTime |-> <<11, 0>>],
    [startTime |-> <<8, 0>>, endTime |-> <<12, 0>>] }

\* Everyone is free, or only the first worker of the roster is.
FreeUsersV3(us) == {Ids(us), <<us[1].id>>}

BlockV3(k, t, free) ==
  [date |-> businessHours[((k - 1) % Len(businessHours)) + 1].date,
   startTime |-> t.startTime, endTime |-> t.endTime, freeUsers |-> free]

BlockListsV3(us) ==
  UNION {{[k \in 1..n |-> BlockV3(k, c[k][1], c[k][2])] :
            c \in [1..n -> BlockTimesV3 \X FreeUsersV3(us)]}
         : n \in 1..MaxBlocksV3}

InitV3 ==
  /\ variant = "v3"
  /\ grain = "run"
  /\ users \in RostersV3
  /\ finals = {}
  /\ blocks \in BlockListsV3(users)
  /\ idx = 1
  /\ schedule = <<>>
  /\ violations = <<>>
  /\ hoursWorked = Zero(users)
  /\ lastWin = Zero(users)
  /\ lastRem = Zero(users)
  /\ clock = 1
  /\ pc = "assign"
  /\ summary = NoSummary
  /\ ElsewhereIdle

\* blocks.forEach(block => { ... }) of assignShifts
AssignShifts ==
  /\ pc = "assign"
  /\ variant = "v3"
  /\ idx <= Len(blocks)
  /\ LET vs == assignShiftsIteration(
                 [schedule |-> schedule, hoursWorked |-> hoursWorked], blocks[idx])
     IN  /\ schedule' = vs.schedule
         /\ hoursWorked' = vs.hoursWorked
  /\ idx' = idx + 1
  /\ pc' = IF idx = Len(blocks) THEN "fill" ELSE "assign"
  /\ UNCHANGED <<variant, grain, users, finals, blocks, violations, lastWin,
                 lastRem, clock, summary>>
  /\ UNCHANGED elsewhere

RECURSIVE fillWithFloatersFrom(_, _, _)
fillWithFloatersFrom(vs, floaters, k) ==
  IF k > Len(vs.schedule) THEN vs
  ELSE fillWithFloatersFrom(fillWithFloatersIteration(vs, floaters, k), floaters, k + 1)

\* fillWithFloaters(schedule, nonFloaters, floaters, hoursWorked)
FillWithFloaters ==
  /\ pc = "fill"
  /\ variant = "v3"
  /\ LET vs == fillWithFloatersFrom(
                 [schedule |-> schedule, hoursWorked |-> hoursWorked], Floaters(users), 1)
     IN  /\ schedule' = vs.schedule
         /\ hoursWorked' = vs.hoursWorked
  /\ pc' = "summary"
  /\ UNCHANGED <<variant, grain, users, finals, blocks, idx, violations, lastWin,
                 lastRem, clock, summary>>
  /\ UNCHANGED elsewhere

\* return getSummary(schedule, users, hoursWorked)
GetSummary ==
  /\ pc = "summary"
  /\ variant = "v3"
  /\ summary' =
       [underworked |->
          Ids(SelectSeq(users, LAMBDA u : hoursWorked[u.id] < TARGET_HOURS))]
  /\ pc' = "done"
  /\ UNCHANGED <<variant, grain, users, finals, blocks, idx, schedule, violations,
                 hoursWorked, lastWin, lastRem, clock>>
  /\ UNCHANGED elsewhere

NextV3 == AssignShifts \/ FillWithFloaters \/ GetSummary

SpecV3 == InitV3 /\ [][NextV3]_vars

(***************************************************************************)
(* C4.  Hour cap of the V3 greedy: once assignShifts and fillWithFloaters  *)
(* have processed all blocks, no worker's hoursWorked exceeds MAX_HOURS.   *)
(***************************************************************************)
C4_HourCapV3 ==
  (variant = "v3" /\ pc \in {"summary", "done"}) =>
    \A id \in DOMAIN hoursWorked : hoursWorked[id] <= MAX_HOURS

(***************************************************************************)
(* isConflict of autoAssignShifts, on instants.  How its four instants are *)
(* built, and what `parses` stands for, is described with autoAssignShifts *)
(* below.                                                                  *)
(***************************************************************************)
Instant(date, time) == <<date, toMinutes(time)>>

\* a < b and a <= b on instants; the ISO dates of the model are those of
\* businessHours, whose order is their position in it.
DayNumber(date) == CHOOSE d \in 1..Len(businessHours) : businessHours[d].date = date

Sooner(a, b) ==
  \/ DayNumber(a[1]) < DayNumber(b[1])
  \/ (a[1] = b[1] /\ a[2] < b[2])

NotAfter(a, b) == Sooner(a, b) \/ a = b

isConflictShifts(final, shift, parses) ==
  LET finalStart == Instant(final.date, final.startTime)
      finalEnd == Instant(final.date, final.endTime)
      shiftStart == Instant(shift.date, shift.startTime)
      shiftEnd == Instant(shift.date, shift.endTime)
  IN  /\ parses
      /\ \/ (NotAfter(finalStart, shiftStart) /\ Sooner(shiftStart, finalEnd))
         \/ (Sooner(finalStart, shiftEnd) /\ NotAfter(shiftEnd, finalEnd))
         \/ (NotAfter(shiftStart, finalStart) /\ NotAfter(finalEnd, shiftEnd))

(***************************************************************************)
(* The helper functions called on their own.  A state holds one call: the  *)
(* function's name and arguments in `call`, and once the function has      *)
(* returned, its value in `result`.                                        *)
(***************************************************************************)
MaxPool == 3

Plain == [isActive |-> TRUE, isCommuter |-> FALSE, isFloater |-> FALSE]

\* pickWorkers(pool, hoursWorked, N, lastAssigned): pools of up to MaxPool
\* workers, hours on both sides of TARGET_HOURS, timestamps with 0 for a
\* worker never assigned (a missing key reads as 0 through `|| 0`).
PoolHours == {0, 12, 16}

PoolStamps == {0, 1, 2}

PickCall ==
  \E n \in 0..MaxPool :
    \E h \in [1..n -> PoolHours], l \in [1..n -> PoolStamps], k \in 0..(n + 1) :
      call = [fn |-> "pickWorkers", pool |-> Roster(n, [i \in 1..n |-> Plain]),
              hoursWorked |-> h, N |-> k, lastAssigned |-> l]

\* generateTimeBlocksForDay(dateStr, start, end): every day window on the
\* half-hour grid with start < end.
HalfHours == {<<h, m>> : h \in 0..23, m \in {0, 30}} \cup {<<24, 0>>}

GenerateCall ==
  \E a \in HalfHours, b \in HalfHours :
    /\ toMinutes(a) < toMinutes(b)
    /\ call = [fn |-> "generateTimeBlocksForDay", dateStr |-> "2025-05-12",
               start |-> a, end |-> b]

\* isConflict(shift, exam): shifts and exams on two dates over a few times
\* that touch, nest and overlap; an exam may lack its date.
ConflictTimes == {<<8, 0>>, <<9, 0>>, <<10, 0>>, <<11, 30>>}

ConflictCall ==
  \E d \in {"2025-05-12", "2025-05-13"}, ed \in {"", "2025-05-12", "2025-05-13"} :
    \E s0 \in ConflictTimes, s1 \in ConflictTimes,
       e0 \in ConflictTimes, e1 \in ConflictTimes :
      /\ toMinutes(s0) < toMinutes(s1)
      /\ call = [fn |-> "isConflict",
                 shift |-> [date |-> d, startTime |-> s0, endTime |-> s1],
                 exam |-> [userId |-> 1, date |-> ed, startTime |-> e0, endTime |-> e1]]

\* findEligible(users, finals, shift, hoursWorked, dur, hourCap | minStage):
\* workers that are inactive, commuters, or at 12, 13 or 18 hours; a shift
\* of 2 or 3 hours starting at 08:30 or at 09:00; the first worker may
\* have an exam inside the shift or one that starts when the shift ends.
EligibleKinds ==
  { [isActive |-> FALSE, isCommuter |-> FALSE, hours |-> 12],
    [isActive |-> TRUE, isCommuter |-> TRUE, hours |-> 12],
    [isActive |-> TRUE, isCommuter |-> FALSE, hours |-> 12],
    [isActive |-> TRUE, isCommuter |-> FALSE, hours |-> 13],
    [isActive |-> TRUE, isCommuter |-> FALSE, hours |-> 18] }

EligibleShifts ==
  {[date |-> "2025-05-12", startTime |-> s, endTime |-> toTime(toMinutes(s) + 60 * d)] :
     s \in {<<8, 30>>, <<9, 0>>}, d \in {2, 3}}

EligibleExams ==
  { {},
    {[userId |-> 1, date |-> "2025-05-12", startTime |-> <<9, 30>>, endTime |-> <<10, 0>>]},
    {[userId |-> 1, date |-> "2025-05-12", startTime |-> <<11, 0>>, endTime |-> <<13, 0>>]} }

EligibleCall ==
  \E n \in 1..MaxPool :
    \E f \in {"findEligible", "findEligibleStage"}, k \in [1..n -> EligibleKinds],
       fs \in EligibleExams, sh \in EligibleShifts, c \in {1, 2} :
      call = [fn |-> f,
              users |-> [i \in 1..n |-> [id |-> i, isActive |-> k[i].isActive,
                                         isCommuter |-> k[i].isCommuter,
                                         isFloater |-> FALSE]],
              finals |-> fs, shift |-> sh,
              hoursWorked |-> [i \in 1..n |-> k[i].hours],
              dur |-> Duration(sh), cap |-> c]

\* hourCap of a call: the DAY_SLICES variant passes TARGET_HOURS or MAX_HOURS,
\* the generated-blocks variant the stage 1 or 2.
CapOf(c) ==
  IF c.fn = "findEligibleStage" THEN c.cap
  ELSE IF c.cap = 2 THEN MAX_HOURS ELSE TARGET_HOURS

\* isConflict(final, shift) of autoAssignShifts: finals and shifts over the
\* same times, intervals that are empty included, with either outcome of the
\* date parser.
ConflictShiftsCall ==
  \E d \in {"2025-05-12", "2025-05-13"}, fd \in {"2025-05-12", "2025-05-13"} :
    \E s0 \in ConflictTimes, s1 \in ConflictTimes,
       f0 \in ConflictTimes, f1 \in ConflictTimes, p \in BOOLEAN :
      /\ toMinutes(s0) <= toMinutes(s1)
      /\ toMinutes(f0) <= toMinutes(f1)
      /\ call = [fn |-> "isConflictShifts",
                 final |-> [userId |-> 1, date |-> fd, startTime |-> f0, endTime |-> f1],
                 shift |-> [date |-> d, startTime |-> s0, endTime |-> s1],
                 parses |-> p]

InitHelpers ==
  /\ variant = "helper"
  /\ grain = "run"
  /\ users = <<>>
  /\ finals = {}
  /\ blocks = <<>>
  /\ idx = 1
  /\ schedule = <<>>
  /\ violations = <<>>
  /\ hoursWorked = <<>>
  /\ lastWin = <<>>
  /\ lastRem = <<>>
  /\ clock = 1
  /\ pc = "call"
  /\ summary = NoSummary
  /\ (PickCall \/ GenerateCall \/ ConflictCall \/ EligibleCall \/ ConflictShiftsCall)
  /\ result = NoCall
  /\ shifts = <<>>
  /\ assignedShifts = <<>>
  /\ dateParses = TRUE
  /\ mockUsers = <<>>
  /\ mockBusyTimes = <<>>
  /\ calls = 0
  /\ FrontendIdle

Returns(value) ==
  /\ pc = "call"
  /\ result' = value
  /\ pc' = "done"
  /\ UNCHANGED <<variant, grain, users, finals, blocks, idx, schedule, violations,
                 hoursWorked, lastWin, lastRem, clock, summary, call, shifts,
                 assignedShifts, dateParses, mockUsers, mockBusyTimes, calls>>
  /\ UNCHANGED frontend

CallPickWorkers ==
  /\ call.fn = "pickWorkers"
  /\ Returns(pickWorkers(call.pool, call.hoursWorked, call.N, call.lastAssigned))

CallGenerateTimeBlocksForDay ==
  /\ call.fn = "generateTimeBlocksForDay"
  /\ Returns(generateTimeBlocksForDay(call.dateStr, call.start, call.end))

CallIsConflict ==
  /\ call.fn = "isConflict"
  /\ Returns(isConflict(call.shift, call.exam))

CallFindEligible ==
  /\ call.fn = "findEligible"
  /\ Returns(findEligible(call.users, call.finals, call.shift, call.hoursWorked,
                          call.dur, CapOf(call)))

CallFindEligibleStage ==
  /\ call.fn = "findEligibleStage"
  /\ Returns(findEligibleStage(call.users, call.finals, call.shift, call.hoursWorked,
                               call.dur, CapOf(call)))

CallIsConflictShifts ==
  /\ call.fn = "isConflictShifts"
  /\ Returns(isConflictShifts(call.final, call.shift, call.parses))

NextHelpers ==
  \/ CallIsConflictShifts
  \/ CallPickWorkers
  \/ CallGenerateTimeBlocksForDay
  \/ CallIsConflict
  \/ CallFindEligible
  \/ CallFindEligibleStage

SpecHelpers == InitHelpers /\ [][NextHelpers]_vars

Called(fn) == variant = "helper" /\ pc = "done" /\ call.fn = fn

(***************************************************************************)
(* C11.  pickWorkers ordering: the result holds min(N, |pool|) distinct    *)
(* workers of the pool, and no worker left out strictly precedes a worker  *)
(* picked in the order: under TARGET_HOURS first, then fewer hours, then   *)
(* the smaller lastAssigned timestamp.                                     *)
(***************************************************************************)
Precedes(a, b, hw, la) ==
  LET ua == hw[a] < TARGET_HOURS
      ub == hw[b] < TARGET_HOURS
  IN  \/ ua /\ ~ub
      \/ ua = ub /\ hw[a] < hw[b]
      \/ ua = ub /\ hw[a] = hw[b] /\ la[a] < la[b]

C11_PickOrdering ==
  Called("pickWorkers") =>
    LET picked == Range(Ids(result))
        left == Range(Ids(call.pool)) \ picked
    IN  /\ Len(result) = Min2(call.N, Len(call.pool))
        /\ Cardinality(picked) = Len(result)
        /\ \A k \in 1..Len(result) : result[k] \in Range(call.pool)
        /\ \A p \in picked : \A q \in left :
             ~Precedes(q, p, call.hoursWorked, call.lastAssigned)

\* A worker later in the pool was picked over an earlier one with the same
\* hours, because it was assigned less recently.
C11_Witness ==
  /\ Called("pickWorkers")
  /\ \E p \in Range(Ids(result)) : \E q \in Range(Ids(call.pool)) \ Range(Ids(result)) :
       /\ q < p
       /\ call.hoursWorked[p] = call.hoursWorked[q]
       /\ call.lastAssigned[p] < call.lastAssigned[q]

(***************************************************************************)
(* C12.  Violation recording in autoAssignFinals: for every block the      *)
(* initial pass has processed, a violation of a kind is on record for the  *)
(* block exactly when the pass gave the block's entry of that kind fewer   *)
(* assignees than the kind's minimum, and nothing else is on record;       *)
(* summary.allConstraintsMet is true exactly when no violation is on       *)
(* record, and then every Window entry of the returned schedule has at     *)
(* least WINDOW_MIN and every Remote entry at least REMOTE_MIN assignees.  *)
(***************************************************************************)
Recorded(rec, kind, block) == <<kind, block.date, block.startTime>> \in rec

\* The entries the initial pass pushed for its k-th block.
WindowOf(k) == schedule[2 * k - 1]

RemoteOf(k) == schedule[2 * k]

InitialPassOnly == pc \in {"loop", "balance"} \/ variant = "blocks"

C12_ViolationRecording ==
  variant \in {"slices", "blocks"} =>
    LET rec == Range(violations)
    IN  /\ InitialPassOnly =>
             /\ \A k \in 1..(idx - 1) :
                  /\ WindowOf(k).shiftType = "Window"
                  /\ RemoteOf(k).shiftType = "Remote"
                  /\ Recorded(rec, "Window", blocks[k])
                       <=> Len(WindowOf(k).assignedTo) < WINDOW_MIN
                  /\ Recorded(rec, "Remote", blocks[k])
                       <=> Len(RemoteOf(k).assignedTo) < REMOTE_MIN
             /\ \A v \in rec :
                  \E k \in 1..(idx - 1) :
                    /\ v[2] = blocks[k].date
                    /\ v[3] = blocks[k].startTime
                    /\ v[1] \in {"Window", "Remote"}
        /\ Returned =>
             /\ summary.violations = violations
             /\ summary.allConstraintsMet <=> (summary.violations = <<>>)
             /\ summary.allConstraintsMet =>
                  \A i \in 1..Len(schedule) :
                    Len(schedule[i].assignedTo) >=
                      (IF schedule[i].shiftType = "Window" THEN WINDOW_MIN ELSE REMOTE_MIN)

\* A run that staffed every block of the week returns allConstraintsMet.
C12_Witness ==
  /\ Returned
  /\ variant \in {"slices", "blocks"}
  /\ summary.allConstraintsMet
  /\ Len(schedule) = 2 * Len(blocks)

(***************************************************************************)
(* C13.  Block durations of the greedy baseline, as claimed: every block   *)
(* the baseline emits a Window or Remote entry for lasts 3 or 4 hours and  *)
(* starts and ends on the hour.                                            *)
(***************************************************************************)
OnTheHour(t) == t[2] = 0

C13_BlockDurations ==
  variant \in {"slices", "blocks"} =>
    \A i \in 1..Len(schedule) :
      /\ toMinutes(schedule[i].endTime) - toMinutes(schedule[i].startTime) \in {180, 240}
      /\ OnTheHour(schedule[i].startTime)
      /\ OnTheHour(schedule[i].endTime)

(***************************************************************************)
(* C14.  Output shape of generateTimeBlocksForDay: for every day window on *)
(* the half-hour grid with start < end, each returned block starts at or   *)
(* after the end of the block before it, lies inside the window, ends on   *)
(* the hour and lasts 2, 3 or 4 hours.                                     *)
(***************************************************************************)
C14_BlockShape ==
  Called("generateTimeBlocksForDay") =>
    \A i \in 1..Len(result) :
      LET b0 == toMinutes(result[i].startTime)
          b1 == toMinutes(result[i].endTime)
      IN  /\ result[i].date = call.dateStr
          /\ i > 1 => /\ b0 >= toMinutes(result[i - 1].endTime)
                      /\ b0 > toMinutes(result[i - 1].startTime)
          /\ b0 >= toMinutes(call.start)
          /\ b1 <= toMinutes(call.end)
          /\ b1 % 60 = 0
          /\ b1 - b0 \in {120, 180, 240}
          /\ \A j \in 1..Len(result) :
               j # i => (b1 <= toMinutes(result[j].startTime)
                         \/ toMinutes(result[j].endTime) <= b0)

\* A window opening on the half hour yields several blocks, and the filter
\* has dropped candidates that overlap the ones kept.
C14_Witness ==
  /\ Called("generateTimeBlocksForDay")
  /\ call.start[2] = 30
  /\ Len(result) >= 2
  /\ Len(result) < Len(CandidateBlocks(call.dateStr, roundUpToHour(toMinutes(call.start)),
                                       toMinutes(call.end)))

(***************************************************************************)
(* C15.  No gaps in coverage, as claimed: on every finals date the blocks  *)
(* of the returned schedule tile the operating window: the first starts at *)
(* opening, each next one starts where the one before ends, and the last   *)
(* ends at closing.                                                        *)
(***************************************************************************)
WindowsOn(date) ==
  SelectSeq(schedule, LAMBDA e : e.shiftType = "Window" /\ e.date = date)

C15_NoGaps ==
  (Returned /\ variant \in {"slices", "blocks"}) =>
    \A d \in 1..Len(businessHours) :
      LET day == WindowsOn(businessHours[d].date)
      IN  /\ Len(day) > 0
          /\ day[1].startTime = businessHours[d].open
          /\ \A i \in 2..Len(day) : day[i].startTime = day[i - 1].endTime
          /\ day[Len(day)].endTime = businessHours[d].close

(***************************************************************************)
(* C16.  Conflict predicate: isConflict(shift, exam) is true exactly when  *)
(* the exam has a date, the date is the shift's, the shift starts before   *)
(* the exam ends and ends after the exam starts; a shift and an exam that  *)
(* only touch at an endpoint do not conflict, nor does an exam without a   *)
(* date.                                                                   *)
(***************************************************************************)
\* Clock time t is earlier than clock time u.
Earlier(t, u) == t[1] < u[1] \/ (t[1] = u[1] /\ t[2] < u[2])

C16_ConflictPredicate ==
  Called("isConflict") =>
    /\ result <=> /\ call.exam.date # ""
                  /\ call.shift.date = call.exam.date
                  /\ Earlier(call.shift.startTime, call.exam.endTime)
                  /\ Earlier(call.exam.startTime, call.shift.endTime)
    /\ (call.shift.endTime = call.exam.startTime
        \/ call.exam.endTime = call.shift.startTime) => ~result
    /\ call.exam.date = "" => ~result

\* An exam that starts when the shift of the same date ends: no conflict.
C16_Witness ==
  /\ Called("isConflict")
  /\ call.shift.date = call.exam.date
  /\ call.shift.endTime = call.exam.startTime
  /\ Earlier(call.exam.startTime, call.exam.endTime)
  /\ result = FALSE

(***************************************************************************)
(* C17.  findEligible result, in both variants: the users returned are     *)
(* exactly those that are active, are not commuters when the shift starts  *)
(* before 09:00, have no exam that conflicts with the shift, and whose     *)
(* hours with the shift's duration added are at most the cap; they come in *)
(* the order of the users given.                                           *)
(***************************************************************************)
CapAsked == IF call.cap = 2 THEN MAX_HOURS ELSE TARGET_HOURS

ShouldBeEligible(u) ==
  /\ u.isActive
  /\ u.isCommuter => ~Earlier(call.shift.startTime, <<9, 0>>)
  /\ \A f \in call.finals :
       f.userId = u.id =>
         ~(/\ f.date = call.shift.date
           /\ Earlier(call.shift.startTime, f.endTime)
           /\ Earlier(f.startTime, call.shift.endTime))
  /\ call.hoursWorked[u.id] + call.dur <= CapAsked

C17_EligibleResult ==
  (Called("findEligible") \/ Called("findEligibleStage")) =>
    /\ Range(result) = {u \in Range(call.users) : ShouldBeEligible(u)}
    /\ \A i, j \in 1..Len(result) : i < j => result[i].id < result[j].id

\* A commuter is returned for a shift starting at 09:00 sharp, next to a
\* worker whose hours land exactly on the cap, while another user is left out.
C17_Witness ==
  /\ Called("findEligible")
  /\ call.shift.startTime = <<9, 0>>
  /\ \E k \in 1..Len(result) : result[k].isCommuter
  /\ \E k \in 1..Len(result) : call.hoursWorked[result[k].id] + call.dur = CapAsked
  /\ Len(result) >= 2
  /\ Len(result) < Len(call.users)

(***************************************************************************)
(* The three autoAssignFinals procedures side by side.                     *)
(***************************************************************************)
SpecAssignments == (Init \/ InitV3) /\ [][Next \/ NextV3]_vars

(***************************************************************************)
(* C18.  Staffing maxima: in every state of the two autoAssignFinals       *)
(* variants and of the V3 greedy -- after each block of the initial pass,  *)
(* after balanceHours, after fillWithFloaters -- every Window entry has at *)
(* most WINDOW_MAX and every Remote entry at most REMOTE_MAX assignees.    *)
(***************************************************************************)
C18_StaffingMaxima ==
  variant \in {"slices", "blocks", "v3"} =>
    \A i \in 1..Len(schedule) :
      /\ schedule[i].shiftType \in {"Window", "Remote"}
      /\ schedule[i].shiftType = "Window" => Len(schedule[i].assignedTo) <= WINDOW_MAX
      /\ schedule[i].shiftType = "Remote" => Len(schedule[i].assignedTo) <= REMOTE_MAX

\* balanceHours has filled a Remote entry to REMOTE_MAX and gone on to add
\* workers to a later one.
C18_Witness ==
  /\ Returned
  /\ variant = "slices"
  /\ \E i, j \in 1..Len(schedule) :
       /\ i < j
       /\ schedule[i].shiftType = "Remote"
       /\ schedule[j].shiftType = "Remote"
       /\ Len(schedule[i].assignedTo) = REMOTE_MAX
       /\ Len(schedule[j].assignedTo) > REMOTE_MIN

(***************************************************************************)
(* autoAssignShifts: every stored shift goes to the first user, in the     *)
(* order of User.find(), none of whose finals conflicts with it.           *)
(*                                                                         *)
(* Its isConflict builds its four instants with                            *)
(* new Date(`${doc.date}T${doc.startTime}`).  The date of a stored final   *)
(* or shift is a Date, which the template renders through toString(); the  *)
(* engine's date parser either makes a valid instant of that text or       *)
(* yields Invalid Date, and every comparison with an Invalid Date is       *)
(* false.  Both outcomes are enumerated (dateParses).  A valid instant is  *)
(* the pair <<date, minutes>>, ordered by date and then by time.           *)
(***************************************************************************)
MaxShifts == 2

LastFree(us, fs, shift, parses) ==
  LET free == {i \in 1..Len(us) :
                 ~\E f \in fs : f.userId = us[i].id /\ isConflictShifts(f, shift, parses)}
  IN  IF free = {} THEN 0 ELSE CHOOSE i \in free : \A j \in free : i >= j

\* The users the inner loop passes over and the one it stops at, if any:
\* the position of the first user without a conflicting final, 0 if none.
FirstFree(us, fs, shift, parses) ==
  LET free == {i \in 1..Len(us) :
                 ~\E f \in fs : f.userId = us[i].id /\ isConflictShifts(f, shift, parses)}
  IN  IF free = {} THEN 0 ELSE CHOOSE i \in free : \A j \in free : i <= j

\* User.find() applies no filter: inactive users are part of the roster.
RostersShifts ==
  UNION {{Roster(n, [i \in 1..n |-> [isActive |-> a[i], isCommuter |-> FALSE,
                                     isFloater |-> FALSE]]) : a \in [1..n -> BOOLEAN]}
         : n \in 0..MaxWorkers}

\* Each user has no final, or one on Monday 08:00-10:00 (userId is unique in
\* the Final collection).
FinalsShifts(n) ==
  {{Exam(u, [date |-> "2025-05-12", startTime |-> <<8, 0>>, endTime |-> <<10, 0>>]) :
      u \in S} : S \in SUBSET (1..n)}

\* Stored shifts: one that overlaps the Monday final, one that starts when it
\* ends; assignedTo is null (0) or names the first user.
ShiftChoices(n) ==
  {[date |-> "2025-05-12", startTime |-> t[1], endTime |-> t[2], assignedTo |-> a] :
     t \in {<<(<<9, 0>>), (<<11, 0>>)>>, <<(<<10, 0>>), (<<12, 0>>)>>},
     a \in {0} \cup ({1} \cap (1..n))}

ShiftLists(n) ==
  UNION {[1..k -> ShiftChoices(n)] : k \in 1..MaxShifts}

InitShifts ==
  /\ variant = "shifts"
  /\ grain = "run"
  /\ users \in RostersShifts
  /\ finals \in FinalsShifts(Len(users))
  /\ blocks = <<>>
  /\ idx = 1
  /\ schedule = <<>>
  /\ violations = <<>>
  /\ hoursWorked = <<>>
  /\ lastWin = <<>>
  /\ lastRem = <<>>
  /\ clock = 1
  /\ pc = "loop"
  /\ summary = NoSummary
  /\ call = NoCall
  /\ result = NoCall
  /\ shifts \in ShiftLists(Len(users))
  /\ assignedShifts = <<>>
  /\ dateParses \in BOOLEAN
  /\ mockUsers = <<>>
  /\ mockBusyTimes = <<>>
  /\ calls = 0
  /\ FrontendIdle

\* One iteration of for (let shift of shifts): the inner loop over users,
\* shift.save() and the push onto assignedShifts.
AssignShift ==
  /\ variant = "shifts"
  /\ pc = "loop"
  /\ idx <= Len(shifts)
  /\ LET i == FirstFree(users, finals, shifts[idx], dateParses)
     IN  IF i = 0
         THEN UNCHANGED <<shifts, assignedShifts>>
         ELSE /\ shifts' = [shifts EXCEPT ![idx].assignedTo = users[i].id]
              /\ assignedShifts' =
                   Append(assignedShifts, [shiftId |-> idx, user |-> users[i].id])
  /\ idx' = idx + 1
  /\ pc' = IF idx = Len(shifts) THEN "done" ELSE "loop"
  /\ UNCHANGED <<variant, grain, users, finals, blocks, schedule, violations,
                 hoursWorked, lastWin, lastRem, clock, summary, call, result,
                 dateParses, mockUsers, mockBusyTimes, calls>>
  /\ UNCHANGED frontend

NextShifts == AssignShift

SpecShifts == InitShifts /\ [][NextShifts]_vars

(***************************************************************************)
(* C19.  Inactive workers are never assigned, as claimed for every         *)
(* assignment procedure: no schedule entry of autoAssignFinals and no      *)
(* shift autoAssignShifts assigns goes to a worker with isActive = false.  *)
(***************************************************************************)
C19_InactiveNeverAssigned ==
  /\ variant \in {"slices", "blocks"} =>
       \A i \in 1..Len(schedule) :
         \A id \in Range(schedule[i].assignedTo) : users[id].isActive
  /\ variant = "shifts" =>
       \A k \in 1..Len(assignedShifts) :
         /\ users[assignedShifts[k].user].isActive
         /\ users[shifts[assignedShifts[k].shiftId].assignedTo].isActive

(***************************************************************************)
(* The client-side roster store of services/api.js: the module-level       *)
(* mockUsers and mockBusyTimes, and the calls addUser and deleteUser.      *)
(* Each call awaits delay(800) and then runs to its end without another    *)
(* await, so the part that reads and writes the store is one step.         *)
(***************************************************************************)
MaxCalls == 3

MockUser(id, name, email, role) ==
  [id |-> id, name |-> name, email |-> email, role |-> role]

InitialMockUsers ==
  << MockUser("1", "John Doe", "john.doe@msoe.edu", "user"),
     MockUser("2", "Jane Smith", "jane.smith@msoe.edu", "user"),
     MockUser("3", "Admin User", "admin@msoe.edu", "admin"),
     MockUser("4", "User 4", "user4@msoe.edu", "user"),
     MockUser("5", "User 5", "user5@msoe.edu", "user"),
     MockUser("6", "User 6", "user6@msoe.edu", "user"),
     MockUser("7", "User 7", "user7@msoe.edu", "user"),
     MockUser("8", "User 8", "user8@msoe.edu", "user"),
     MockUser("9", "User 9", "user9@msoe.edu", "user"),
     MockUser("10", "User 10", "user10@msoe.edu", "user") >>

\* mockBusyTimes: user id -> (slot -> label).
InitialMockBusyTimes ==
  [id \in {"1", "2"} |->
     IF id = "1"
     THEN [slot \in {"Monday-9:00 am", "Monday-10:00 am", "Wednesday-9:00 am",
                     "Wednesday-10:00 am", "Friday-9:00 am", "Friday-10:00 am",
                     "Tuesday-1:00 pm", "Thursday-3:00 pm"} |->
             CASE slot = "Tuesday-1:00 pm" -> "Meeting with advisor"
               [] slot = "Thursday-3:00 pm" -> "Study group"
               [] OTHER -> "Class: CS101"]
     ELSE [slot \in {"Monday-1:00 pm", "Monday-2:00 pm", "Wednesday-1:00 pm",
                     "Wednesday-2:00 pm", "Friday-1:00 pm", "Friday-2:00 pm",
                     "Tuesday-10:00 am", "Tuesday-11:00 am", "Thursday-10:00 am",
                     "Thursday-11:00 am"} |->
             IF slot \in {"Tuesday-10:00 am", "Tuesday-11:00 am", "Thursday-10:00 am",
                          "Thursday-11:00 am"}
             THEN "Work shift" ELSE "Class: ENG201"]]

\* What the admin page may submit for a new user.
UserData == {[name |-> "New User", email |-> "new.user@msoe.edu"]}

\* Ids a caller may ask to delete: those stored, and one that is not.
DeletableIds == {mockUsers[i].id : i \in 1..Len(mockUsers)} \cup {"99"}

InitStore ==
  /\ variant = "store"
  /\ grain = "run"
  /\ users = <<>>
  /\ finals = {}
  /\ blocks = <<>>
  /\ idx = 1
  /\ schedule = <<>>
  /\ violations = <<>>
  /\ hoursWorked = <<>>
  /\ lastWin = <<>>
  /\ lastRem = <<>>
  /\ clock = 1
  /\ pc = "idle"
  /\ summary = NoSummary
  /\ call = NoCall
  /\ result = NoCall
  /\ shifts = <<>>
  /\ assignedShifts = <<>>
  /\ dateParses = TRUE
  /\ mockUsers = InitialMockUsers
  /\ mockBusyTimes = InitialMockBusyTimes
  /\ calls = 0
  /\ FrontendIdle

storeFrame ==
  <<variant, grain, users, finals, blocks, idx, schedule, violations, hoursWorked,
    lastWin, lastRem, clock, pc, summary, call, shifts, assignedShifts, dateParses,
    frontend>>

\* addUser(userData): the new id is String(mockUsers.length + 1).
AddUser ==
  /\ variant = "store"
  /\ calls < MaxCalls
  /\ \E userData \in UserData :
       LET newUser == MockUser(ToString(Len(mockUsers) + 1), userData.name,
                               userData.email, "user")
       IN  /\ mockUsers' = Append(mockUsers, newUser)
           /\ result' = newUser
  /\ calls' = calls + 1
  /\ UNCHANGED mockBusyTimes
  /\ UNCHANGED storeFrame

\* Array.prototype.splice(index, 1)
Splice(s, index) == SubSeq(s, 1, index - 1) \o SubSeq(s, index + 1, Len(s))

\* deleteUser(userId): removes the first user with that id and the user's
\* busy times, or throws 'User not found'.
DeleteUser ==
  /\ variant = "store"
  /\ calls < MaxCalls
  /\ \E userId \in DeletableIds :
       LET found == {i \in 1..Len(mockUsers) : mockUsers[i].id = userId}
       IN  IF found # {}
           THEN /\ mockUsers' = Splice(mockUsers, CHOOSE i \in found : \A j \in found : i <= j)
                /\ mockBusyTimes' =
                     [id \in DOMAIN mockBusyTimes \ {userId} |-> mockBusyTimes[id]]
                /\ result' = TRUE
           ELSE /\ UNCHANGED <<mockUsers, mockBusyTimes>>
                /\ result' = "User not found"
  /\ calls' = calls + 1
  /\ UNCHANGED storeFrame

NextStore == AddUser \/ DeleteUser

SpecStore == InitStore /\ [][NextStore]_vars

(***************************************************************************)
(* C20.  Roster id uniqueness in the client-side store, as claimed: after  *)
(* any sequence of addUser and deleteUser calls from the initial mockUsers *)
(* list, no two users of mockUsers have the same id.                       *)
(***************************************************************************)
C20_UniqueIds ==
  variant = "store" =>
    \A i, j \in 1..Len(mockUsers) : i # j => mockUsers[i].id # mockUsers[j].id

(***************************************************************************)
(* The user routes of the server: POST /api/users and POST                 *)
(* /api/users/validate over the User collection.  Requests are handled one *)
(* at a time; `users` is the collection in insertion order, `call` the     *)
(* request being answered and `result` the response.  An e-mail is the     *)
(* sequence of its characters; a body field that is absent or empty is ""  *)
(* (<<>> for the e-mail, 0 for userId), which `!field` treats alike.  A    *)
(* document's _id is its position in the collection.                       *)
(***************************************************************************)
MaxRequests == 3

AdminEmail ==
  <<"s", "u", "d", "e", "r", "s", "a", "n", "a", "m", "v", "@",
    "m", "s", "o", "e", ".", "e", "d", "u">>

\* String.prototype.toLowerCase, on the letters the inputs use.
Lower(c) ==
  CASE c = "A" -> "a"
    [] c = "S" -> "s"
    [] c = "V" -> "v"
    [] OTHER -> c

toLowerCase(s) == [i \in 1..Len(s) |-> Lower(s[i])]

\* String.prototype.trim
RECURSIVE trimStart(_)
trimStart(s) ==
  IF s # <<>> /\ Head(s) = " " THEN trimStart(Tail(s)) ELSE s

RECURSIVE trimEnd(_)
trimEnd(s) ==
  IF s # <<>> /\ s[Len(s)] = " " THEN trimEnd(SubSeq(s, 1, Len(s) - 1)) ELSE s

trim(s) == trimEnd(trimStart(s))

findNone(coll, email) == 0

\* User.findOne({ email }): the position of the first document with that
\* e-mail, 0 for null.
findOneByEmail(coll, email) ==
  LET found == {i \in 1..Len(coll) : coll[i].email = email}
  IN  IF found = {} THEN 0 ELSE CHOOSE i \in found : \A j \in found : i <= j

\* newUser.save(): the schema's enums and its unique indexes on name and
\* userId reject the document; the route answers 500 from its catch block.
saveRejects(coll, doc) ==
  \/ doc.role \notin {"user", "admin"}
  \/ doc.position \notin {"Tier 1", "Tier 2", "Tier 3", "Tier 4"}
  \/ \E i \in 1..Len(coll) :
       coll[i].name = doc.name \/ coll[i].userId = doc.userId \/ coll[i].email = doc.email

isAdminNever(user) == FALSE

\* const isAdmin = user.position === 'Tier 4'
isAdmin(user) == user.position = "Tier 4"

\* Request bodies of POST /api/users.
BodyNames == {"", "Ann"}

BodyUserIds == {0, 1, 2}

BodyEmails == {<<>>, <<"a", "@", "m">>, AdminEmail}

BodyRoles == {"", "user", "admin"}

BodyPositions == {"", "Tier 1", "Tier 4"}

\* E-mails sent to /validate: empty, blank, the hard-coded one as written and
\* with capitals and blanks around it, a stored one likewise, an unknown one.
ValidateEmails ==
  { <<>>, <<" ", " ">>, AdminEmail,
    <<" ", "S">> \o Tail(AdminEmail) \o <<" ">>,
    <<"a", "@", "m">>, <<" ", "A", "@", "m", " ">>, <<"b", "@", "m">> }

InitServer ==
  /\ variant = "server"
  /\ grain = "run"
  /\ users = <<>>
  /\ finals = {}
  /\ blocks = <<>>
  /\ idx = 1
  /\ schedule = <<>>
  /\ violations = <<>>
  /\ hoursWorked = <<>>
  /\ lastWin = <<>>
  /\ lastRem = <<>>
  /\ clock = 1
  /\ pc = "idle"
  /\ summary = NoSummary
  /\ call = NoCall
  /\ result = NoCall
  /\ shifts = <<>>
  /\ assignedShifts = <<>>
  /\ dateParses = TRUE
  /\ mockUsers = <<>>
  /\ mockBusyTimes = <<>>
  /\ calls = 0
  /\ FrontendIdle

serverFrame ==
  <<variant, grain, finals, blocks, idx, schedule, violations, hoursWorked,
    lastWin, lastRem, clock, pc, summary, shifts, assignedShifts, dateParses,
    mockUsers, mockBusyTimes, frontend>>

\* router.post('/', ...)
PostUsers ==
  /\ variant = "server"
  /\ calls < MaxRequests
  /\ \E name \in BodyNames, userId \in BodyUserIds, email \in BodyEmails,
        role \in BodyRoles, position \in BodyPositions :
       LET doc == [name |-> name, userId |-> userId, email |-> email,
                   role |-> role, position |-> position]
       IN  /\ call' = [route |-> "POST /api/users", body |-> doc]
           /\ IF name = "" \/ userId = 0 \/ email = <<>> \/ role = "" \/ position = ""
              THEN /\ result' = [status |-> 400, message |-> "All fields are required"]
                   /\ UNCHANGED users
              ELSE IF findOneByEmail(users, email) # 0
              THEN /\ result' = [status |-> 409, message |-> "User already exists"]
                   /\ UNCHANGED users
              ELSE IF saveRejects(users, doc)
              THEN /\ result' = [status |-> 500, message |-> "Server error"]
                   /\ UNCHANGED users
              ELSE /\ result' = [status |-> 201, message |-> "User created successfully",
                                 user |-> doc]
                   /\ users' = Append(users, doc)
  /\ calls' = calls + 1
  /\ UNCHANGED serverFrame

\* router.post('/validate', ...)
PostValidate ==
  /\ variant = "server"
  /\ calls < MaxRequests
  /\ \E email \in ValidateEmails :
       LET cleanedEmail == toLowerCase(trim(email))
           found == findOneByEmail(users, cleanedEmail)
           user == users[found]
       IN  /\ call' = [route |-> "POST /api/users/validate", body |-> [email |-> email]]
           /\ result' =
                IF cleanedEmail = <<>>
                THEN [status |-> 400, message |-> "Email required"]
                ELSE IF cleanedEmail = AdminEmail
                THEN [status |-> 200, success |-> TRUE,
                      user |-> [id |-> "admin", name |-> "Admin", email |-> cleanedEmail,
                                role |-> "admin", position |-> "Admin"]]
                ELSE IF found = 0
                THEN [status |-> 401, message |-> "User not found"]
                ELSE [status |-> 200, success |-> TRUE,
                      user |-> [id |-> found, name |-> user.name, email |-> user.email,
                                role |-> IF isAdmin(user) THEN "admin" ELSE user.role,
                                position |-> user.position]]
  /\ calls' = calls + 1
  /\ UNCHANGED users
  /\ UNCHANGED serverFrame

NextServer == PostUsers \/ PostValidate

SpecServer == InitServer /\ [][NextServer]_vars

Answered(route) == variant = "server" /\ call # NoCall /\ call.route = route

(***************************************************************************)
(* C21.  Admin detection in POST /validate: for a stored user found by     *)
(* e-mail, the returned role is 'admin' exactly when the user's position   *)
(* is 'Tier 4' or the stored role is 'admin', and otherwise it is the      *)
(* stored role; the hard-coded admin e-mail always yields role 'admin',    *)
(* with the fixed identity the route spells out and whatever the User      *)
(* collection holds.                                                       *)
(***************************************************************************)
\* The request's e-mail, blanks around it and capitals aside, is e.
AsksFor(e) ==
  \E lead, trail \in {<<>>, <<" ">>, <<" ", " ">>} :
    \E body \in {e, <<"A">> \o Tail(e), <<"S">> \o Tail(e)} :
      call.body.email = lead \o body \o trail

C21_AdminDetection ==
  Answered("POST /api/users/validate") =>
    /\ AsksFor(AdminEmail) =>
         /\ result.status = 200
         /\ result.user = [id |-> "admin", name |-> "Admin", email |-> AdminEmail,
                           role |-> "admin", position |-> "Admin"]
    /\ \A i \in 1..Len(users) :
         (users[i].email # AdminEmail /\ AsksFor(users[i].email)) =>
           /\ result.status = 200
           /\ result.user.id = i
           /\ result.user.role = "admin"
                <=> (users[i].position = "Tier 4" \/ users[i].role = "admin")
           /\ result.user.role # "admin" => result.user.role = users[i].role

\* A stored Tier 4 user whose stored role is 'user' is answered as admin, the
\* request spelling the e-mail with a capital and blanks.
C21_Witness ==
  /\ Answered("POST /api/users/validate")
  /\ call.body.email = <<" ", "A", "@", "m", " ">>
  /\ result.status = 200
  /\ result.user.role = "admin"
  /\ users[result.user.id].role = "user"
  /\ users[result.user.id].position = "Tier 4"

(***************************************************************************)
(* C27.  POST /api/users rejects without side effect: a request missing    *)
(* any of name, userId, email, role or position is answered 400, one whose *)
(* email is that of a stored user 409, and neither changes the User        *)
(* collection; a user is added, exactly one and the one submitted, only    *)
(* when neither holds, and exactly then the answer is 201.  So after any   *)
(* sequence of create requests handled one at a time no two stored users   *)
(* share an email.                                                         *)
(***************************************************************************)
MissingField(b) ==
  b.name = "" \/ b.userId = 0 \/ b.email = <<>> \/ b.role = "" \/ b.position = ""

EmailStored(coll, email) == \E i \in 1..Len(coll) : coll[i].email = email

NoSharedEmail ==
  \A i, j \in 1..Len(users) : i # j => users[i].email # users[j].email

C27_CreateRejects ==
  /\ [](variant = "server" => NoSharedEmail)
  /\ [][(variant = "server" /\ call'.route = "POST /api/users") =>
          LET b == call'.body
          IN  /\ MissingField(b) => (result'.status = 400 /\ users' = users)
              /\ (~MissingField(b) /\ EmailStored(users, b.email))
                   => (result'.status = 409 /\ users' = users)
              /\ users' # users =>
                   /\ ~MissingField(b)
                   /\ ~EmailStored(users, b.email)
                   /\ users' = Append(users, b)
              /\ result'.status = 201 <=> users' # users]_vars

\* A request for another userId with the e-mail of a stored user has been answered 409.
C27_Witness ==
  /\ Answered("POST /api/users")
  /\ result.status = 409
  /\ Len(users) = 1
  /\ users[1].email = call.body.email
  /\ users[1].userId # call.body.userId

(***************************************************************************)
(* C22.  Hour-tally consistency, as claimed: after every block the initial *)
(* pass or assignShifts has processed, after balanceHours and after        *)
(* fillWithFloaters, hoursWorked of every worker is the sum of the         *)
(* durations of the schedule entries whose assignedTo contains the worker. *)
(* The balanceHours of the generated-blocks variant, which its             *)
(* autoAssignFinals does not call, is applied to the returned schedule.    *)
(***************************************************************************)
TallyMatches(sch, hw) == \A id \in DOMAIN hw : hw[id] = AssignedHours(sch, id)

C22_HourTally ==
  /\ variant \in {"slices", "blocks", "v3"} => TallyMatches(schedule, hoursWorked)
  /\ (Returned /\ variant = "blocks") =>
       LET bs == balanceHoursBlocks(schedule, users, hoursWorked)
       IN  TallyMatches(bs.schedule, bs.hoursWorked)

(***************************************************************************)
(* C23.  No duplicate assignee inside one entry, as claimed: in every      *)
(* schedule the initial passes, balanceHours of either variant and         *)
(* fillWithFloaters leave, the assignedTo list of each entry holds each    *)
(* worker at most once.                                                    *)
(***************************************************************************)
NoRepeats(list) == \A a, b \in 1..Len(list) : a # b => list[a] # list[b]

C23_NoDuplicateAssignee ==
  /\ variant \in {"slices", "blocks", "v3"} =>
       \A i \in 1..Len(schedule) : NoRepeats(schedule[i].assignedTo)
  /\ (Returned /\ variant = "blocks") =>
       LET sch == balanceHoursBlocks(schedule, users, hoursWorked).schedule
       IN  \A i \in 1..Len(sch) : NoRepeats(sch[i].assignedTo)

(***************************************************************************)
(* C24.  Frame of balanceHours, in both variants: it leaves every Window   *)
(* entry as it is, keeps the entries of the schedule, their order, dates   *)
(* and times, keeps the assignees every entry had in their places, lowers  *)
(* no worker's hoursWorked, and changes hoursWorked only of workers that   *)
(* were under TARGET_HOURS when it started.  The balanceHours of the       *)
(* generated-blocks variant is applied to the returned schedule.           *)
(***************************************************************************)
BalanceFrame(s0, h0, s1, h1) ==
  /\ Len(s1) = Len(s0)
  /\ \A i \in 1..Len(s0) :
       /\ s1[i].date = s0[i].date
       /\ s1[i].startTime = s0[i].startTime
       /\ s1[i].endTime = s0[i].endTime
       /\ s1[i].shiftType = s0[i].shiftType
       /\ s0[i].shiftType = "Window" => s1[i] = s0[i]
       /\ Len(s1[i].assignedTo) >= Len(s0[i].assignedTo)
       /\ SubSeq(s1[i].assignedTo, 1, Len(s0[i].assignedTo)) = s0[i].assignedTo
  /\ DOMAIN h1 = DOMAIN h0
  /\ \A id \in DOMAIN h0 :
       /\ h1[id] >= h0[id]
       /\ h1[id] # h0[id] => h0[id] < TARGET_HOURS

C24_BalanceFrame ==
  /\ []((Returned /\ variant = "blocks") =>
          LET bs == balanceHoursBlocks(schedule, users, hoursWorked)
          IN  BalanceFrame(schedule, hoursWorked, bs.schedule, bs.hoursWorked))
  /\ [][pc = "balance" =>
          BalanceFrame(schedule, hoursWorked, schedule', hoursWorked')]_vars

\* balanceHours has topped a worker up through Remote entries while a Window
\* entry of the same schedule stays at its single assignee.
C24_Witness ==
  /\ pc = "summary"
  /\ variant = "slices"
  /\ \E i \in 1..Len(schedule) :
       /\ schedule[i].shiftType = "Remote"
       /\ Len(schedule[i].assignedTo) = REMOTE_MIN + 1
  /\ \E i \in 1..Len(schedule) :
       /\ schedule[i].shiftType = "Window"
       /\ Len(schedule[i].assignedTo) = WINDOW_MIN
  /\ \E id \in DOMAIN hoursWorked : hoursWorked[id] > TARGET_HOURS

(***************************************************************************)
(* C25.  autoAssignShifts assignment rule: each stored shift, when its     *)
(* turn comes, goes to the first user in roster order none of whose finals *)
(* isConflict reports against it, and exactly one record (shift, user) is  *)
(* appended to the result; when isConflict reports a final of every user,  *)
(* the shift's assignedTo and the result stay as they are.  No other shift *)
(* is touched and earlier assignments play no part, so one user may hold   *)
(* any number of shifts, overlapping ones included.                        *)
(***************************************************************************)
FreeFor(shift) ==
  {i \in 1..Len(users) :
     \A f \in finals :
       f.userId = users[i].id => ~isConflictShifts(f, shift, dateParses)}

C26_PredicatesAgree ==
  (/\ Called("isConflictShifts")
   /\ call.final.date = call.shift.date
   /\ Earlier(call.final.startTime, call.final.endTime)
   /\ Earlier(call.shift.startTime, call.shift.endTime))
  => result = isConflict(call.shift, call.final)

(***************************************************************************)
(* The App component of the React client: its state, the routes it         *)
(* renders, LoginPage's submit and logo handlers, and a page load at any   *)
(* path.  pc is "mount" until the mount effect has run and "login" between *)
(* the navigate and the onLogin of a submit whose two updates are not      *)
(* rendered together.  A stored user without a role has role "".           *)
(***************************************************************************)
Paths == {"/", "/user", "/admin", "/too-bad"}

StoredUsers ==
  { <<>>,
    <<[email |-> "admin@msoe.edu", role |-> "admin"]>>,
    <<[email |-> "john.doe@msoe.edu", role |-> "user"]>>,
    <<[email |-> "jane.smith@msoe.edu", role |-> ""]>> }

StoredTokens == {<<>>, <<"token">>}

\* What a submit of LoginPage passes to onLogin: the hard-coded admin e-mail
\* with 'admin', or the role of the /validate response.
Logins ==
  { [email |-> "sudersanamv@msoe.edu", role |-> "admin"],
    [email |-> "john.doe@msoe.edu", role |-> "user"],
    [email |-> "jane.smith@msoe.edu", role |-> "user"],
    [email |-> "admin@msoe.edu", role |-> "admin"] }

Element(name) == [element |-> name, to |-> ""]

Navigate(path) == [element |-> "Navigate", to |-> path]

\* The element App returns for the current location.
Render ==
  IF appIsLoading THEN Element("Loading")
  ELSE CASE location = "/" ->
              IF isAuthenticated
              THEN (IF userRole = "admin" THEN Navigate("/admin") ELSE Navigate("/user"))
              ELSE Element("LoginPage")
         [] location = "/user" ->
              IF isAuthenticated /\ userRole = "user"
              THEN Element("UserPage") ELSE Navigate("/")
         [] location = "/admin" ->
              IF isAuthenticated /\ userRole = "admin"
              THEN Element("AdminPage") ELSE Navigate("/")
         [] OTHER -> Element("TooBadPage")

logoutTokenOnly(storage) == [storage EXCEPT !.token = <<>>]

\* logout of services/api.js
logout(storage) == [storage EXCEPT !.token = <<>>, !.user = <<>>]

\* getCurrentUser of services/api.js
getCurrentUser(storage) == storage.user

InitApp ==
  /\ variant = "app"
  /\ grain = "run"
  /\ users = <<>>
  /\ finals = {}
  /\ blocks = <<>>
  /\ idx = 1
  /\ schedule = <<>>
  /\ violations = <<>>
  /\ hoursWorked = <<>>
  /\ lastWin = <<>>
  /\ lastRem = <<>>
  /\ clock = 1
  /\ pc = "mount"
  /\ summary = NoSummary
  /\ call = NoCall
  /\ result = NoCall
  /\ shifts = <<>>
  /\ assignedShifts = <<>>
  /\ dateParses = TRUE
  /\ mockUsers = <<>>
  /\ mockBusyTimes = <<>>
  /\ calls = 0
  /\ isAuthenticated = FALSE
  /\ userRole = ""
  /\ userEmail = ""
  /\ appIsLoading = TRUE
  /\ location \in Paths
  /\ localStorage \in [user : StoredUsers, token : StoredTokens]
  /\ loggedOut = FALSE
  /\ selectedUser = ""
  /\ busyTimes = <<>>
  /\ isLoading = FALSE
  /\ showAddUserForm = FALSE
  /\ showDeleteModal = FALSE
  /\ timers = <<>>
  /\ fetching = 0

appFrame ==
  <<variant, grain, users, finals, blocks, idx, schedule, violations, hoursWorked,
    lastWin, lastRem, clock, summary, result, shifts, assignedShifts, dateParses,
    mockUsers, mockBusyTimes, calls, selectedUser, busyTimes, isLoading,
    showAddUserForm, showDeleteModal, timers, fetching>>

\* useEffect(() => { ... }, []) of App
MountEffect ==
  /\ variant = "app"
  /\ pc = "mount"
  /\ LET user == getCurrentUser(localStorage)
     IN  IF user # <<>>
         THEN /\ isAuthenticated' = TRUE
              /\ userRole' = user[1].role
              /\ userEmail' = user[1].email
         ELSE UNCHANGED <<isAuthenticated, userRole, userEmail>>
  /\ appIsLoading' = FALSE
  /\ pc' = "idle"
  /\ UNCHANGED <<location, localStorage, loggedOut, call>>
  /\ UNCHANGED appFrame

\* handleLogin(email, role)
handleLogin(login) ==
  /\ isAuthenticated' = TRUE
  /\ userRole' = login.role
  /\ userEmail' = login.email
  /\ loggedOut' = FALSE

\* handleSubmit of LoginPage, its navigate and its onLogin rendered together.
HandleSubmit ==
  /\ variant = "app"
  /\ pc = "idle"
  /\ Render = Element("LoginPage")
  /\ \E login \in Logins :
       /\ handleLogin(login)
       /\ location' = IF login.role = "admin" THEN "/admin" ELSE "/user"
  /\ UNCHANGED <<appIsLoading, localStorage, pc, call>>
  /\ UNCHANGED appFrame

\* handleSubmit of LoginPage up to the first of its two updates: onLogin for
\* the hard-coded admin e-mail (navigate follows), navigate otherwise (onLogin
\* follows).
HandleSubmitFirst ==
  /\ variant = "app"
  /\ pc = "idle"
  /\ Render = Element("LoginPage")
  /\ \E login \in Logins :
       /\ call' = [fn |-> "handleSubmit", login |-> login]
       /\ IF login.email = "sudersanamv@msoe.edu"
          THEN /\ handleLogin(login)
               /\ UNCHANGED location
          ELSE /\ location' = IF login.role = "admin" THEN "/admin" ELSE "/user"
               /\ UNCHANGED <<isAuthenticated, userRole, userEmail, loggedOut>>
  /\ pc' = "login"
  /\ UNCHANGED <<appIsLoading, localStorage>>
  /\ UNCHANGED appFrame

\* ... and its second update.
HandleSubmitSecond ==
  /\ variant = "app"
  /\ pc = "login"
  /\ IF call.login.email = "sudersanamv@msoe.edu"
     THEN /\ location' = "/admin"
          /\ UNCHANGED <<isAuthenticated, userRole, userEmail, loggedOut>>
     ELSE /\ handleLogin(call.login)
          /\ UNCHANGED location
  /\ pc' = "idle"
  /\ call' = NoCall
  /\ UNCHANGED <<appIsLoading, localStorage>>
  /\ UNCHANGED appFrame

\* handleLogout, reached through the Header of UserPage and AdminPage
HandleLogout ==
  /\ variant = "app"
  /\ pc = "idle"
  /\ Render.element \in {"UserPage", "AdminPage"}
  /\ localStorage' = logout(localStorage)
  /\ isAuthenticated' = FALSE
  /\ userRole' = ""
  /\ userEmail' = ""
  /\ loggedOut' = TRUE
  /\ UNCHANGED <<appIsLoading, location, pc, call>>
  /\ UNCHANGED appFrame

\* handleLogoClick of LoginPage
HandleLogoClick ==
  /\ variant = "app"
  /\ pc = "idle"
  /\ Render = Element("LoginPage")
  /\ localStorage' = logout(localStorage)
  /\ location' = "/"
  /\ UNCHANGED <<isAuthenticated, userRole, userEmail, appIsLoading, loggedOut, pc, call>>
  /\ UNCHANGED appFrame

\* <Navigate to=... /> takes the router to its target.
FollowNavigate ==
  /\ variant = "app"
  /\ Render.element = "Navigate"
  /\ location' = Render.to
  /\ UNCHANGED <<isAuthenticated, userRole, userEmail, appIsLoading, localStorage,
                 loggedOut, pc, call>>
  /\ UNCHANGED appFrame

\* The browser loads the app at a path: the component state starts afresh,
\* localStorage stays.
Visit ==
  /\ variant = "app"
  /\ \E path \in Paths : location' = path
  /\ isAuthenticated' = FALSE
  /\ userRole' = ""
  /\ userEmail' = ""
  /\ appIsLoading' = TRUE
  /\ pc' = "mount"
  /\ call' = NoCall
  /\ UNCHANGED <<localStorage, loggedOut>>
  /\ UNCHANGED appFrame

NextApp ==
  \/ MountEffect
  \/ HandleSubmit
  \/ HandleSubmitFirst
  \/ HandleSubmitSecond
  \/ HandleLogout
  \/ HandleLogoClick
  \/ FollowNavigate
  \/ Visit

SpecApp == InitApp /\ [][NextApp]_vars

(***************************************************************************)
(* C28.  Route guard of the React app: AdminPage is rendered only when     *)
(* isAuthenticated is true and userRole is 'admin', UserPage only when     *)
(* isAuthenticated is true and userRole is 'user'; any other visit to      *)
(* /admin or /user renders a redirect to '/'; and from handleLogout, which *)
(* removes the stored user and token, until the next handleLogin neither   *)
(* protected page is rendered, page loads included.                        *)
(***************************************************************************)
C28_RouteGuard ==
  variant = "app" =>
    /\ Render.element = "AdminPage" => (isAuthenticated /\ userRole = "admin")
    /\ Render.element = "UserPage" => (isAuthenticated /\ userRole = "user")
    /\ (/\ ~appIsLoading
        /\ location \in {"/admin", "/user"}
        /\ Render.element \notin {"AdminPage", "UserPage"})
       => (Render.element = "Navigate" /\ Render.to = "/")
    /\ loggedOut =>
         /\ Render.element \notin {"AdminPage", "UserPage"}
         /\ localStorage.user = <<>>
         /\ localStorage.token = <<>>

\* After a logout the app was loaded afresh at /admin: it has mounted and
\* renders the redirect.
C28_Witness ==
  /\ variant = "app"
  /\ loggedOut
  /\ pc = "idle"
  /\ ~appIsLoading
  /\ location = "/admin"
  /\ Render = Navigate("/")

(***************************************************************************)
(* The AdminPage component over the api service.  fetchUserBusyTimes,      *)
(* deleteUser and addUser each await delay(800): their continuations run   *)
(* in the order the calls were made (timers).  fetchUsers is a network     *)
(* request; the server's roster carries the ids of the client-side store.  *)
(* The list with the UserDropdown is rendered unless isLoading is true and *)
(* the add-user form is closed; the confirmation modal covers the page     *)
(* while it is open.                                                       *)
(***************************************************************************)
MaxClicks == 5

\* What GET /api/users answers.
ServerUsers == <<"1", "2", "3">>

\* mockBusyTimes[userId] || {}
BusyTimesOf(store, userId) ==
  IF userId \in DOMAIN store THEN store[userId] ELSE <<>>

InitAdminPage ==
  /\ variant = "admin"
  /\ grain = "run"
  /\ users = <<>>
  /\ finals = {}
  /\ blocks = <<>>
  /\ idx = 1
  /\ schedule = <<>>
  /\ violations = <<>>
  /\ hoursWorked = <<>>
  /\ lastWin = <<>>
  /\ lastRem = <<>>
  /\ clock = 1
  /\ pc = "idle"
  /\ summary = NoSummary
  /\ call = NoCall
  /\ result = NoCall
  /\ shifts = <<>>
  /\ assignedShifts = <<>>
  /\ dateParses = TRUE
  /\ mockUsers = InitialMockUsers
  /\ mockBusyTimes = InitialMockBusyTimes
  /\ calls = 0
  /\ isAuthenticated = TRUE
  /\ userRole = "admin"
  /\ userEmail = "admin@msoe.edu"
  /\ appIsLoading = FALSE
  /\ location = "/admin"
  /\ localStorage = NoStorage
  /\ loggedOut = FALSE
  /\ selectedUser = ""
  /\ busyTimes = <<>>
  /\ isLoading = TRUE
  /\ showAddUserForm = FALSE
  /\ showDeleteModal = FALSE
  /\ timers = <<>>
  /\ fetching = 1

adminFrame ==
  <<variant, grain, finals, blocks, idx, schedule, violations, hoursWorked, lastWin,
    lastRem, clock, pc, summary, call, result, shifts, assignedShifts, dateParses,
    isAuthenticated, userRole, userEmail, appIsLoading, location, localStorage,
    loggedOut>>

Click ==
  /\ variant = "admin"
  /\ calls < MaxClicks
  /\ calls' = calls + 1

ListShown == ~(isLoading /\ ~showAddUserForm) /\ ~showDeleteModal

\* handleSelectUser(userId) and the effect on [selectedUser], which calls
\* loadUserBusyTimes up to its await.
SelectUser ==
  /\ Click
  /\ ListShown
  /\ \E userId \in Range(users) :
       /\ userId # selectedUser
       /\ selectedUser' = userId
       /\ timers' = Append(timers, [op |-> "fetchUserBusyTimes", userId |-> userId])
  /\ isLoading' = TRUE
  /\ UNCHANGED <<users, busyTimes, showAddUserForm, showDeleteModal, fetching,
                 mockUsers, mockBusyTimes>>
  /\ UNCHANGED adminFrame

\* onClick of the 'Add New User' / 'Cancel' button
ToggleAddUserForm ==
  /\ Click
  /\ ~showDeleteModal
  /\ showAddUserForm' = ~showAddUserForm
  /\ UNCHANGED <<users, selectedUser, busyTimes, isLoading, showDeleteModal, timers,
                 fetching, mockUsers, mockBusyTimes>>
  /\ UNCHANGED adminFrame

\* handleAddUser up to its await; the form's submit button is disabled
\* while isLoading is true.
SubmitAddUser ==
  /\ Click
  /\ showAddUserForm
  /\ ~isLoading
  /\ ~showDeleteModal
  /\ isLoading' = TRUE
  /\ timers' = Append(timers, [op |-> "addUser", userId |-> ""])
  /\ UNCHANGED <<users, selectedUser, busyTimes, showAddUserForm, showDeleteModal,
                 fetching, mockUsers, mockBusyTimes>>
  /\ UNCHANGED adminFrame

\* onClick of 'Delete Selected User'
OpenDeleteModal ==
  /\ Click
  /\ selectedUser # ""
  /\ ~showDeleteModal
  /\ showDeleteModal' = TRUE
  /\ UNCHANGED <<users, selectedUser, busyTimes, isLoading, showAddUserForm, timers,
                 fetching, mockUsers, mockBusyTimes>>
  /\ UNCHANGED adminFrame

\* onCancel of the modal
CancelDelete ==
  /\ Click
  /\ showDeleteModal
  /\ showDeleteModal' = FALSE
  /\ UNCHANGED <<users, selectedUser, busyTimes, isLoading, showAddUserForm, timers,
                 fetching, mockUsers, mockBusyTimes>>
  /\ UNCHANGED adminFrame

\* handleDeleteUser up to its await
ConfirmDelete ==
  /\ Click
  /\ showDeleteModal
  /\ isLoading' = TRUE
  /\ timers' = Append(timers, [op |-> "deleteUser", userId |-> selectedUser])
  /\ UNCHANGED <<users, selectedUser, busyTimes, showAddUserForm, showDeleteModal,
                 fetching, mockUsers, mockBusyTimes>>
  /\ UNCHANGED adminFrame

\* loadUserBusyTimes from the response of fetchUserBusyTimes on
BusyTimesResponse ==
  /\ variant = "admin"
  /\ timers # <<>>
  /\ Head(timers).op = "fetchUserBusyTimes"
  /\ busyTimes' = BusyTimesOf(mockBusyTimes, Head(timers).userId)
  /\ isLoading' = FALSE
  /\ timers' = Tail(timers)
  /\ UNCHANGED <<users, selectedUser, showAddUserForm, showDeleteModal, fetching,
                 mockUsers, mockBusyTimes, calls>>
  /\ UNCHANGED adminFrame

\* deleteUser of the api service after its delay, and handleDeleteUser from
\* there to the await inside loadUsers, or through its catch and finally.
DeleteUserResponse ==
  /\ variant = "admin"
  /\ timers # <<>>
  /\ Head(timers).op = "deleteUser"
  /\ LET userId == Head(timers).userId
         found == {i \in 1..Len(mockUsers) : mockUsers[i].id = userId}
     IN  IF found # {}
         THEN /\ mockUsers' = Splice(mockUsers, CHOOSE i \in found : \A j \in found : i <= j)
              /\ mockBusyTimes' =
                   [id \in DOMAIN mockBusyTimes \ {userId} |-> mockBusyTimes[id]]
              /\ selectedUser' = ""
              /\ busyTimes' = <<>>
              /\ showDeleteModal' = FALSE
              /\ isLoading' = TRUE
              /\ fetching' = fetching + 1
         ELSE /\ isLoading' = FALSE
              /\ UNCHANGED <<mockUsers, mockBusyTimes, selectedUser, busyTimes,
                             showDeleteModal, fetching>>
  /\ timers' = Tail(timers)
  /\ UNCHANGED <<users, showAddUserForm, calls>>
  /\ UNCHANGED adminFrame

\* addUser of the api service after its delay, and handleAddUser from there
\* to the await inside loadUsers.
AddUserResponse ==
  /\ variant = "admin"
  /\ timers # <<>>
  /\ Head(timers).op = "addUser"
  /\ \E userData \in UserData :
       mockUsers' = Append(mockUsers, MockUser(ToString(Len(mockUsers) + 1),
                                               userData.name, userData.email, "user"))
  /\ showAddUserForm' = FALSE
  /\ isLoading' = TRUE
  /\ fetching' = fetching + 1
  /\ timers' = Tail(timers)
  /\ UNCHANGED <<users, selectedUser, busyTimes, showDeleteModal, mockBusyTimes, calls>>
  /\ UNCHANGED adminFrame

\* loadUsers from the response of fetchUsers on; when a handler awaits it,
\* that handler's finally follows with the same setIsLoading(false).
FetchUsersResponse ==
  /\ variant = "admin"
  /\ fetching > 0
  /\ \E ok \in BOOLEAN : users' = IF ok THEN ServerUsers ELSE users
  /\ isLoading' = FALSE
  /\ fetching' = fetching - 1
  /\ UNCHANGED <<selectedUser, busyTimes, showAddUserForm, showDeleteModal, timers,
                 mockUsers, mockBusyTimes, calls>>
  /\ UNCHANGED adminFrame

NextAdminPage ==
  \/ SelectUser
  \/ ToggleAddUserForm
  \/ SubmitAddUser
  \/ OpenDeleteModal
  \/ CancelDelete
  \/ ConfirmDelete
  \/ BusyTimesResponse
  \/ DeleteUserResponse
  \/ AddUserResponse
  \/ FetchUsersResponse

SpecAdminPage == InitAdminPage /\ [][NextAdminPage]_vars

(***************************************************************************)
(* C29.  AdminPage shows the selected user's busy times under any          *)
(* interleaving, as claimed: whenever no busy-time request is in flight,   *)
(* busyTimes are those fetched for the selected user, or empty when no     *)
(* user is selected; and isLoading is true whenever a loadUsers or a       *)
(* loadUserBusyTimes request is in flight.                                 *)
(***************************************************************************)
BusyInFlight == \E k \in 1..Len(timers) : timers[k].op = "fetchUserBusyTimes"

ShowsSelected ==
  ~BusyInFlight =>
    busyTimes = (IF selectedUser = "" THEN <<>>
                 ELSE BusyTimesOf(mockBusyTimes, selectedUser))

LoadingWhileInFlight == (BusyInFlight \/ fetching > 0) => isLoading

C29_BusyTimesOfSelected ==
  variant = "admin" => (ShowsSelected /\ LoadingWhileInFlight)

====
